---------------------------- MODULE Spec2Model ----------------------------
(***************************************************************************)
(* Kern: the Engine Client (src/src/workers/kern-engine.ts), the worker    *)
(* context it talks to (src/unnamed/part_006), the Durable Store and the   *)
(* Document Coordinator (src/unnamed/part_007), and the editor             *)
(* (src/src/components/KernEditor.tsx).                                    *)
(*                                                                         *)
(* Nine specifications share the variables:                                *)
(*   SpecClient  the Engine Client driven by an arbitrary caller,          *)
(*   SpecStore   the Durable Store driven by a foreground caller that      *)
(*               awaits each call and by the flush timer,                  *)
(*   SpecCoord   the Coordinator on top of the Engine Client.              *)
(*   SpecReinit  the Coordinator's initStore() called repeatedly,          *)
(*   SpecTrip    the Coordinator with its document calls made one after    *)
(*               the other,                                                *)
(*   SpecAuto    the Coordinator with setupAutoSave()'s two timers,        *)
(*   SpecEarly   the Coordinator called before the store is initialized,   *)
(*   SpecSwitch  the Coordinator with the timers and loadDocument calls,   *)
(*   SpecEditor  the editor's key handler.                                 *)
(***************************************************************************)
EXTENDS Integers, Sequences, FiniteSets, TLC

(***************************************************************************)
(* Bounds of the model.                                                    *)
(***************************************************************************)
MaxReq == 3
\* requests (other than init) one behaviour of SpecClient issues

MaxStoreCalls == 3
\* calls that write to the Durable Store in one behaviour: saveSnapshot and
\* deleteDocument of the foreground caller and appendUpdates of the flush
\* timer together (init, loadDocument and listDocuments are not counted)

MaxClock == 1
\* the last reading the clock (Date.now()) reaches, from 0

MaxCalls == 2
\* applyEdit, setDocumentText, saveDocument and loadDocument calls in one
\* behaviour of SpecCoord

MaxInitStore == 2
\* initStore() calls in one behaviour of SpecReinit

MaxTrip == 3
\* saveDocument and loadDocument calls in one behaviour of SpecTrip

MaxTime == 36
\* the time the clock reaches in one behaviour of SpecAuto

MaxEdits == 1
\* loadDocument calls made while the timers run.
MaxLoads == 1
\* lines of a view the editor is rendered with
MaxLines == 2
\* `o` keys pressed in one behaviour of SpecEditor
MaxKeys == 2
\* applyEdit calls in one behaviour of SpecAuto

VARIABLES
    \* ---- Engine Client (KernEngineAPI) ----
    worker,          \* this.worker: "null" or "live"
    isReady,         \* this.isReady
    handlers,        \* this.handlers: response type -> array of once-wrappers
    pendingMessages, \* this.pendingMessages
    reqs,            \* the promises the client handed out, in issue order
    \* ---- the worker context ----
    engine,          \* `engine` of the worker: FALSE is null
    doc,             \* the document the engine holds
    inbox,           \* messages posted to the worker, not yet handled
    outbox,          \* responses posted by the worker, not yet delivered
    orphans,         \* the contexts of earlier init() calls that a later init()
                     \* replaced without terminating them: each still runs
                     \* and its onmessage still calls handleMessage
    \* ---- history of the client ----
    posted,          \* ids of the messages handed to worker.postMessage, in order
    terminated,      \* terminate() has been called since the last init()
    thrown,          \* ids of the requests the worker answered with 'error'
    results,         \* the view or snapshot each response carried, by the id
                     \* of the request the response answers
    \* ---- Durable Store (OPFSStorage) and the storage area behind it ----
    root,            \* this.root is set
    initialized,     \* this.initialized
    dirs,            \* the subdirectories of kern-data that exist
    snapshots,       \* the snapshots directory: file name -> content
    updates,         \* the updates directory: file name -> delta record
    now,             \* the last reading of the clock (Date.now())
    scall,           \* per caller: the store call it is in
    ncalls,          \* per caller: calls made so far
    nextRid,         \* history: delta records written so far
    saved,           \* history: per id, the last completed snapshot operation
    \* ---- Document Coordinator (the signals of the document store) ----
    isInitialized,   \* isInitialized()
    isLoading,       \* isLoading()
    error,           \* error(): <<>> is null, <<m>> the message m
    documentView,    \* documentView(): the published view
    currentDocId,    \* currentDocId()
    engineHealth,    \* engineHealth(): <<>> is '', <<h>> the health string h
    lastSnapshotTime,\* lastSnapshotTime()
    pendingUpdates,  \* pendingUpdates(): the buffered deltas
    coord,           \* the coordinator calls made, in order, and where each stands
    \* ---- the editor (KernEditor) and the store it is rendered with ----
    mockDocumentView,  \* the lines of the view documentView() returns
    mockIsInitialized, \* what isInitialized() returns
    mockApplyEdit,     \* the deltas applyEdit was called with, in order
    cursorLine,        \* cursorLine()
    cursorCol,         \* cursorCol()
    mode               \* mode(): "normal" or "insert"

clientVars == <<worker, isReady, handlers, pendingMessages, reqs, engine, doc,
                inbox, outbox, orphans, posted, terminated, thrown, results>>

storeVars == <<root, initialized, dirs, snapshots, updates, now, scall,
               ncalls, nextRid, saved>>

signals == <<isInitialized, isLoading, error, documentView, currentDocId,
             engineHealth, lastSnapshotTime, pendingUpdates>>

coordVars == <<signals, coord>>

editorVars == <<mockDocumentView, mockIsInitialized, mockApplyEdit,
               cursorLine, cursorCol, mode>>

vars == <<clientVars, storeVars, coordVars, editorVars>>

(***************************************************************************)
(* The wire protocol (part_006:11-44).                                     *)
(***************************************************************************)
RequestKinds == {"check_health", "get_view", "apply_edit", "set_text",
                 "export_snapshot", "load_from_bytes"}

ResponseTypes == {"ready", "view", "edited", "snapshot", "loaded", "health",
                  "error"}

\* The response type the worker posts for a request it handled without a throw.
ResponseOf(kind) ==
    CASE kind = "init"            -> "ready"
      [] kind = "check_health"    -> "health"
      [] kind = "get_view"        -> "view"
      [] kind = "apply_edit"      -> "edited"
      [] kind = "set_text"        -> "view"
      [] kind = "export_snapshot" -> "snapshot"
      [] kind = "load_from_bytes" -> "loaded"

\* What a request message carries besides its type: content is the delta of
\* apply_edit or the text of set_text, data the bytes of load_from_bytes.
NoArg == [content |-> <<>>, data |-> 0]

Delta == [content |-> <<"+">>, data |-> 0]

Content(text) == [content |-> text, data |-> 0]

Data(bytes) == [content |-> <<>>, data |-> bytes]

(***************************************************************************)
(* Sequence helpers.                                                       *)
(***************************************************************************)
RemoveAt(s, i) == SubSeq(s, 1, i - 1) \o SubSeq(s, i + 1, Len(s))

Range(s) == {s[i] : i \in 1..Len(s)}

RECURSIVE Ids(_)
Ids(msgs) == IF msgs = <<>> THEN <<>> ELSE <<Head(msgs).id>> \o Ids(Tail(msgs))

(***************************************************************************)
(* The engine (KernEngine of the kern_wasm package, whose source is not    *)
(* part of the files read here): modelled from the data model of the       *)
(* specification.  A document is its text, the ids of its lines and its    *)
(* version; every accepted mutation increments the version.                *)
(***************************************************************************)
\* new KernEngine(): the empty document.
EmptyDoc == [text |-> <<>>, ids |-> 0, version |-> 0]

\* The bytes are a snapshot that export_snapshot produced.
IsSnapshot(res, bytes) == bytes \in DOMAIN res /\ res[bytes].type = "snapshot"

\* The engine call of the message does not throw on its argument:
\* load_from_bytes needs a well-formed snapshot.
Accepts(msg) == msg.type = "load_from_bytes" => IsSnapshot(results, msg.arg.data)

\* The document after the engine call of the message.  apply_edit changes
\* the text and keeps the lines' ids; set_text replaces the body, its lines
\* are new (their ids are named by the request); load_from_bytes restores
\* the state the snapshot was exported from.
EngineCall(d, msg) ==
    CASE msg.type = "apply_edit" ->
            [d EXCEPT !.text = @ \o msg.arg.content, !.version = @ + 1]
      [] msg.type = "set_text" ->
            [text |-> msg.arg.content, ids |-> msg.id, version |-> d.version + 1]
      [] msg.type = "load_from_bytes" -> results[msg.arg.data].doc
      [] OTHER -> d

\* What the responses have carried, after the response to the message: a
\* 'view' response carries the view of the document d, a 'snapshot' response
\* its encoding.
Carried(res, msg, d) ==
    IF ResponseOf(msg.type) \in {"view", "snapshot"}
    THEN [i \in DOMAIN res \cup {msg.id} |->
             IF i = msg.id THEN [type |-> ResponseOf(msg.type), doc |-> d] ELSE res[i]]
    ELSE res

\* The arguments a caller of the Engine Client passes with a request.
Args(kind) ==
    CASE kind = "apply_edit" -> {Delta}
      [] kind = "set_text" -> {Content(<<"text">>)}
      [] kind = "load_from_bytes" ->
            {Data(b) : b \in {0} \cup {i \in DOMAIN results : IsSnapshot(results, i)}}
      [] OTHER -> {NoArg}

(***************************************************************************)
(* Engine Client: the handler table.  A handler is the once-wrapper of one *)
(* request: [req |-> the request, role |-> "ok" (its resolve handler) or   *)
(* "err" (its reject handler)].                                            *)
(***************************************************************************)
\* on(type, handler): push onto the type's array.
On(hs, type, h) == [hs EXCEPT ![type] = Append(@, h)]

\* off(type, handler): splice the first occurrence out of the array.
Off(list, h) ==
    IF \E k \in 1..Len(list) : list[k] = h
    THEN RemoveAt(list, CHOOSE k \in 1..Len(list) :
                          list[k] = h /\ \A j \in 1..(k - 1) : list[j] # h)
    ELSE list

\* once(type, handler): registers the wrapper; the wrapper's off-then-call is
\* what Dispatch runs when the wrapper is invoked.
Once(hs, type, h) == On(hs, type, h)

\* handleMessage's loop: `for (const handler of handlers) handler(response)`
\* iterates the live array by index while each invoked wrapper splices itself
\* out of it.  i is the iterator's next index (1-based); the result is the
\* array left behind and the wrappers invoked, in order.
RECURSIVE Dispatch(_, _, _)
Dispatch(list, i, invoked) ==
    IF i > Len(list)
    THEN [left |-> list, invoked |-> invoked]
    ELSE Dispatch(Off(list, list[i]), i + 1, Append(invoked, list[i]))

(***************************************************************************)
(* Engine Client: operations.                                              *)
(***************************************************************************)
\* worker?.postMessage(msgs...) with this.worker = w: nothing when w is null.
PostAll(msgs, w) ==
    IF w = "live"
    THEN /\ inbox' = inbox \o msgs
         /\ posted' = posted \o Ids(msgs)
    ELSE UNCHANGED <<inbox, posted>>

\* Send without the readiness check: every message is posted at once.
SendUnguarded(msg, w) ==
    /\ PostAll(<<msg>>, w)
    /\ UNCHANGED pendingMessages

\* send(message), with this.worker = w.
Send(msg, w) ==
    IF ~isReady /\ msg.type # "init"
    THEN /\ pendingMessages' = Append(pendingMessages, msg)
         /\ UNCHANGED <<inbox, posted>>
    ELSE /\ PostAll(<<msg>>, w)
         /\ UNCHANGED pendingMessages

\* The promise a request method returns: pending until one of its two
\* handlers settles it.  queued records whether send() held the message.
NewRequest(kind) ==
    [kind |-> kind, status |-> "pending", value |-> 0,
     queued |-> (~isReady /\ kind # "init")]

\* The body every request method shares (checkHealth, getView, applyEdit,
\* setText, exportSnapshot, loadFromBytes): once(<response type>), once('error'),
\* send.
Call(kind, arg) ==
    LET id == Len(reqs) + 1 IN
    /\ handlers' = Once(Once(handlers, ResponseOf(kind), [req |-> id, role |-> "ok"]),
                        "error", [req |-> id, role |-> "err"])
    /\ reqs' = Append(reqs, NewRequest(kind))
    /\ Send([type |-> kind, id |-> id, arg |-> arg], worker)
    /\ UNCHANGED <<worker, isReady, engine, doc, outbox, orphans, terminated,
                   thrown, results>>

NumInits == Cardinality({r \in DOMAIN reqs : reqs[r].kind = "init"})

NumRequests == Cardinality({r \in DOMAIN reqs : reqs[r].kind # "init"})

\* init(): a new Worker, the two handlers, then send({type: 'init'}), which
\* posts at once.  this.worker is overwritten: a worker it referred to is not
\* terminated and keeps its queues and its onmessage.  isReady is not reset.
ClientInit ==
    LET id == Len(reqs) + 1 IN
    /\ worker' = "live"
    /\ engine' = FALSE
    /\ doc' = EmptyDoc
    /\ terminated' = FALSE
    /\ orphans' = IF worker = "live"
                  THEN Append(orphans, [engine |-> engine, doc |-> doc,
                                        inbox |-> inbox, outbox |-> outbox])
                  ELSE orphans
    /\ handlers' = Once(Once(handlers, "ready", [req |-> id, role |-> "ok"]),
                        "error", [req |-> id, role |-> "err"])
    /\ reqs' = Append(reqs, NewRequest("init"))
    /\ inbox' = <<[type |-> "init", id |-> id, arg |-> NoArg]>>
    /\ posted' = Append(posted, id)
    /\ outbox' = <<>>
    /\ UNCHANGED <<isReady, pendingMessages, thrown, results>>

\* The requests not yet settled.
Outstanding == {r \in DOMAIN reqs : reqs[r].status = "pending"}

\* A caller invokes one of the six request methods.  Callers keep the
\* documented constraint: no second request awaiting a response type that an
\* outstanding request already awaits.
Request(kind) ==
    /\ NumRequests < MaxReq
    /\ \A r \in Outstanding : ResponseOf(reqs[r].kind) # ResponseOf(kind)
    /\ \E arg \in Args(kind) : Call(kind, arg)

\* What the invoked wrappers do to the promises: the "ok" wrapper resolves,
\* the "err" wrapper rejects, with the response's payload; settling a promise
\* that is already settled changes nothing.
Settle(rs, invoked, val) ==
    [r \in DOMAIN rs |->
        IF rs[r].status = "pending" /\ \E h \in Range(invoked) : h.req = r
        THEN LET h == CHOOSE h \in Range(invoked) : h.req = r IN
             [rs[r] EXCEPT !.status = IF h.role = "ok" THEN "resolved" ELSE "rejected",
                           !.value = val]
        ELSE rs[r]]

\* handleMessage(response).  A 'ready' wrapper also sets isReady and posts
\* the held messages to this.worker.
Handle(resp) ==
    LET d == Dispatch(handlers[resp.type], 1, <<>>) IN
    /\ handlers' = [handlers EXCEPT ![resp.type] = d.left]
    /\ reqs' = Settle(reqs, d.invoked, resp.val)
    /\ IF resp.type = "ready" /\ d.invoked # <<>>
       THEN /\ isReady' = TRUE
            /\ PostAll(pendingMessages, worker)
            /\ pendingMessages' = <<>>
       ELSE UNCHANGED <<isReady, pendingMessages, inbox, posted>>

\* worker.onmessage of this.worker -> handleMessage(response).
HandleMessage ==
    /\ worker = "live"
    /\ outbox # <<>>
    /\ outbox' = Tail(outbox)
    /\ Handle(Head(outbox))
    /\ UNCHANGED <<worker, engine, doc, orphans, terminated, thrown, results>>

\* onmessage of a replaced worker -> handleMessage(response).
OrphanMessage(k) ==
    /\ orphans[k].outbox # <<>>
    /\ orphans' = [orphans EXCEPT ![k].outbox = Tail(@)]
    /\ Handle(Head(orphans[k].outbox))
    /\ UNCHANGED <<worker, engine, doc, outbox, terminated, thrown, results>>

\* terminate(): worker.terminate() discards what is in flight in both
\* directions; the client forgets the worker and its readiness.
Terminate ==
    /\ worker = "live"
    /\ worker' = "null"
    /\ isReady' = FALSE
    /\ terminated' = TRUE
    /\ engine' = FALSE
    /\ doc' = EmptyDoc
    /\ inbox' = <<>>
    /\ outbox' = <<>>
    /\ UNCHANGED <<handlers, pendingMessages, reqs, orphans, posted, thrown, results>>

(***************************************************************************)
(* The worker context (self.onmessage): one message handled per step.  The *)
(* response carries the id of the request it answers as its payload (the   *)
(* health string, view, affected lines, snapshot bytes or error message).  *)
(***************************************************************************)
WorkerReply(type, msg) == outbox' = Append(outbox, [type |-> type, val |-> msg.id])

\* The engine call of this request throws (initEngine's catch for init).
WorkerThrows ==
    /\ inbox # <<>>
    /\ inbox' = Tail(inbox)
    /\ WorkerReply("error", Head(inbox))
    /\ thrown' = thrown \cup {Head(inbox).id}
    /\ UNCHANGED <<worker, isReady, handlers, pendingMessages, reqs, engine, doc,
                   orphans, posted, terminated, results>>

\* The request is served; apply_edit, get_view, export_snapshot, load_from_bytes
\* and set_text need the engine.
WorkerServes ==
    /\ inbox # <<>>
    /\ LET msg == Head(inbox) IN
       /\ msg.type \in {"init", "check_health"} \/ engine
       /\ Accepts(msg)
       /\ engine' = (engine \/ msg.type = "init")
       /\ doc' = EngineCall(doc, msg)
       /\ results' = Carried(results, msg, EngineCall(doc, msg))
       /\ WorkerReply(ResponseOf(msg.type), msg)
    /\ inbox' = Tail(inbox)
    /\ UNCHANGED <<worker, isReady, handlers, pendingMessages, reqs, orphans,
                   posted, terminated, thrown>>

\* A replaced worker handles the next of the messages it was posted: it
\* serves it or its engine call throws, as above.
OrphanWorker(k) ==
    /\ orphans[k].inbox # <<>>
    /\ LET msg == Head(orphans[k].inbox) IN
       \E type \in {ResponseOf(msg.type), "error"} :
          /\ type # "error"
                => /\ msg.type \in {"init", "check_health"} \/ orphans[k].engine
                   /\ Accepts(msg)
          /\ orphans' = [orphans EXCEPT
                            ![k].inbox = Tail(@),
                            ![k].engine = (@ \/ (msg.type = "init" /\ type # "error")),
                            ![k].doc = IF type = "error" THEN @ ELSE EngineCall(@, msg),
                            ![k].outbox = Append(@, [type |-> type, val |-> msg.id])]
          /\ thrown' = IF type = "error" THEN thrown \cup {msg.id} ELSE thrown
          /\ results' = IF type = "error" THEN results
                        ELSE Carried(results, msg, EngineCall(orphans[k].doc, msg))
    /\ UNCHANGED <<worker, isReady, handlers, pendingMessages, reqs, engine, doc,
                   inbox, outbox, posted, terminated>>

InitClient ==
    /\ worker = "null"
    /\ isReady = FALSE
    /\ handlers = [t \in ResponseTypes |-> <<>>]
    /\ pendingMessages = <<>>
    /\ reqs = <<>>
    /\ engine = FALSE
    /\ doc = EmptyDoc
    /\ inbox = <<>>
    /\ outbox = <<>>
    /\ orphans = <<>>
    /\ posted = <<>>
    /\ terminated = FALSE
    /\ thrown = {}
    /\ results = <<>>

NextClient ==
    \/ NumInits = 0 /\ ClientInit /\ UNCHANGED <<storeVars, coordVars, editorVars>>
    \/ \E kind \in RequestKinds : Request(kind) /\ UNCHANGED <<storeVars, coordVars, editorVars>>
    \/ HandleMessage /\ UNCHANGED <<storeVars, coordVars, editorVars>>
    \/ Terminate /\ UNCHANGED <<storeVars, coordVars, editorVars>>
    \/ WorkerThrows /\ UNCHANGED <<storeVars, coordVars, editorVars>>
    \/ WorkerServes /\ UNCHANGED <<storeVars, coordVars, editorVars>>


(***************************************************************************)
(* Claims about the Engine Client (checked under SpecClient).              *)
(***************************************************************************)
\* The requests other than init, and those among them that send() held.
IsRequest(r) == reqs[r].kind # "init"

Held(r) == IsRequest(r) /\ reqs[r].queued

InPending(r) == \E i \in 1..Len(pendingMessages) : pendingMessages[i].id = r

InPosted(r) == \E i \in 1..Len(posted) : posted[i] = r

\* C1: every request other than init issued while the client is not ready is
\* held in the pending queue; once readiness is observed nothing is held any
\* more, and the requests are posted to the context exactly once each, in the
\* order they were issued, the held ones before every request issued later
\* (the requests appear in the log of postMessage calls in strictly
\* increasing issue order).
C1_QueueBeforeReady ==
    /\ \A r \in DOMAIN reqs : Held(r) => (InPending(r) /= InPosted(r))
    /\ \A r \in DOMAIN reqs : IsRequest(r) /\ ~reqs[r].queued /\ ~terminated => InPosted(r)
    /\ \A i, j \in 1..Len(pendingMessages) :
          i < j => pendingMessages[i].id < pendingMessages[j].id
    /\ isReady => pendingMessages = <<>>
    /\ \A i, j \in 1..Len(posted) :
          (i < j /\ IsRequest(posted[i]) /\ IsRequest(posted[j])) => posted[i] < posted[j]

\* C1 witness: two held requests were posted on readiness, in issue order, and
\* a request issued after readiness was posted after them.
C1_Witness ==
    \E i, j, k \in 1..Len(posted) :
        /\ i < j /\ j < k
        /\ Held(posted[i]) /\ Held(posted[j])
        /\ IsRequest(posted[k]) /\ ~reqs[posted[k]].queued

\* The step that delivers the response at the head of outbox to handleMessage.
Delivers(type, r) ==
    /\ worker = "live" /\ worker' = "live"
    /\ outbox # <<>> /\ outbox' = Tail(outbox)
    /\ Head(outbox).type = type
    /\ Head(outbox).val = r

\* C2: whenever the context answers the single outstanding request, of any of
\* the six kinds, with an error response, that request's call fails with the
\* response's message.
C2_ErrorRejects ==
    [][\A r \in DOMAIN reqs :
          (Delivers("error", r) /\ IsRequest(r) /\ Outstanding = {r})
              => (reqs'[r].status = "rejected" /\ reqs'[r].value = r)]_vars

\* C4: terminate() fails every request that is pending, and a request issued
\* after terminate() fails at once.
C4_TerminateFailsRequests ==
    [][/\ (worker = "live" /\ worker' = "null")
            => \A r \in DOMAIN reqs : reqs'[r].status # "pending"
       /\ (terminated /\ Len(reqs') > Len(reqs))
            => reqs'[Len(reqs')].status = "rejected"]_vars

\* C10: whenever no request is outstanding, the handler table holds no handler
\* of a completed request.
C10_NoStaleHandlers ==
    Outstanding = {} => \A t \in ResponseTypes : handlers[t] = <<>>

\* The step that delivers the response answering request r to handleMessage.
Answers(r) ==
    /\ worker = "live" /\ worker' = "live"
    /\ outbox # <<>> /\ outbox' = Tail(outbox)
    /\ Head(outbox).val = r

\* C11: when the outstanding requests (init not among them) are of pairwise
\* different kinds and there are at least two, the response to one of them settles that request
\* with its own result (resolved by its success response, rejected by an
\* error response) and leaves every other outstanding request pending.
C11_NonInterference ==
    [][\A r \in DOMAIN reqs :
          (/\ Answers(r)
           /\ r \in Outstanding
           /\ Outstanding # {r}
           /\ \A p \in Outstanding : IsRequest(p)
           /\ \A p, q \in Outstanding : p # q => reqs[p].kind # reqs[q].kind)
              => /\ reqs'[r].status = IF Head(outbox).type = "error"
                                      THEN "rejected" ELSE "resolved"
                 /\ reqs'[r].value = r
                 /\ \A q \in Outstanding \ {r} : reqs'[q] = reqs[q]]_vars

\* C12: no request is dropped silently: once init() has failed and nothing is
\* in flight between client and context, every request handed to the client
\* has been posted to the context or its caller has received a failure.
C12_NoSilentDrop ==
    (/\ \E i \in DOMAIN reqs : reqs[i].kind = "init" /\ reqs[i].status = "rejected"
     /\ inbox = <<>> /\ outbox = <<>>)
        => \A r \in DOMAIN reqs :
              IsRequest(r) => (InPosted(r) \/ reqs[r].status = "rejected")

\* C13: init() posts the init request at once, without queueing it; the
\* 'ready' response resolves it with the health string and the client is
\* ready; an 'error' response during startup rejects it with the context's
\* message and the client stays not ready.
C13_InitContract ==
    [][\A i \in DOMAIN reqs' :
          /\ (i \notin DOMAIN reqs /\ reqs'[i].kind = "init")
                => /\ posted' = Append(posted, i)
                   /\ inbox' = Append(inbox, [type |-> "init", id |-> i, arg |-> NoArg])
                   /\ pendingMessages' = pendingMessages
          /\ (i \in DOMAIN reqs /\ reqs[i].kind = "init"
                /\ reqs[i].status = "pending" /\ Answers(i))
                => IF Head(outbox).type = "ready"
                   THEN /\ reqs'[i].status = "resolved" /\ reqs'[i].value = i
                        /\ isReady'
                   ELSE /\ reqs'[i].status = "rejected" /\ reqs'[i].value = i
                        /\ ~isReady']_vars


\* C37: when handleMessage takes the success response that answers a pending
\* request (the response of the request's kind, carrying its payload), the
\* request completes with that payload, also when an earlier request of the
\* same kind ended with an error response.
C37_MatchingResponseCompletes ==
    [][\A r \in DOMAIN reqs :
          (/\ worker = "live" /\ worker' = "live" /\ terminated' = terminated
           /\ outbox # <<>> /\ outbox' = Tail(outbox)
           /\ Head(outbox).type = ResponseOf(reqs[r].kind)
           /\ Head(outbox).val = r
           /\ reqs[r].status = "pending")
             => reqs'[r].status = "resolved" /\ reqs'[r].value = r]_vars

(***************************************************************************)
(* Durable Store (OPFSStorage, part_007:45-224).                           *)
(*                                                                         *)
(* A document id and a file name are strings, modelled as sequences of     *)
(* tokens: the letters of the id, "-", ".loro", ".delta" and the decimal   *)
(* rendering of a timestamp.                                               *)
(***************************************************************************)
DocIds == {<<"a">>, <<"a", "-", ".loro", "b">>}

\* The snapshot contents callers pass; 0 is the empty file and Absent the
\* "no such file" reading.
Bytes == {1, 2}

\* The delta blobs the flush timer passes.
Deltas == {1}

Absent == -1

\* The callers of the store: a foreground caller and the flush timer, and
\* the coordinator's calls, each named by its number.
MostCalls == IF MaxTrip > MaxCalls THEN MaxTrip ELSE MaxCalls

CoordSlots == {ToString(c) : c \in 1..(MaxInitStore + MostCalls)}

Callers == {"fg", "timer"} \cup CoordSlots

\* `${id}.loro`
SnapshotName(id) == id \o <<".loro">>

\* `${id}-${timestamp}.delta`
DeltaName(id, timestamp) == id \o <<"-", ToString(timestamp), ".delta">>

\* name.startsWith(prefix)
StartsWith(name, prefix) ==
    /\ Len(name) >= Len(prefix)
    /\ SubSeq(name, 1, Len(prefix)) = prefix

\* name.endsWith('.loro')
EndsWithLoro(name) == Len(name) >= 1 /\ name[Len(name)] = ".loro"

\* name.replace('.loro', ''): the first occurrence is removed.
ReplaceLoro(name) ==
    IF \E i \in 1..Len(name) : name[i] = ".loro"
    THEN RemoveAt(name, CHOOSE i \in 1..Len(name) :
                          name[i] = ".loro" /\ \A j \in 1..(i - 1) : name[j] # ".loro")
    ELSE name

\* listDocuments(): the names of the snapshots directory that end in .loro,
\* each with its first '.loro' removed.
ListDocuments(dir) == {ReplaceLoro(name) : name \in {n \in DOMAIN dir : EndsWithLoro(n)}}

\* A directory without / with one entry.
Without(dir, name) == [n \in DOMAIN dir \ {name} |-> dir[n]]

With(dir, name, entry) == [n \in DOMAIN dir \cup {name} |-> IF n = name THEN entry ELSE dir[n]]

\* entry.name.startsWith(`${id}-`): what clearUpdates(id) removes.
Matches(name, id) == StartsWith(name, id \o <<"-">>)

\* The content loadDocument(id) reads.
Stored(dir, id) == IF SnapshotName(id) \in DOMAIN dir THEN dir[SnapshotName(id)] ELSE Absent

\* A caller not inside a store call.  A call in progress: the method, its
\* arguments, where it is suspended (pc), the file it opened, the entries its
\* clearUpdates loop has seen; at pc = "return" the call has settled and
\* status, bytes and list are what the caller gets.  committed and preRid are
\* history: whether the snapshot write has been closed, and the number of
\* delta records written before the call was made; removed is the numbers of
\* the delta records of the call's own id that its clearUpdates has removed.
Idle == [op |-> "idle", id |-> <<>>, data |-> 0, pc |-> "idle", name |-> <<>>,
         rid |-> 0, seen |-> {}, committed |-> FALSE, preRid |-> 0, removed |-> {},
         status |-> "none", bytes |-> Absent, list |-> {}]

NewCall(op, id, data, pc) ==
    [Idle EXCEPT !.op = op, !.id = id, !.data = data, !.pc = pc, !.preRid = nextRid]

\* The call settles: status "ok" (the promise resolves with bytes or list) or
\* "failed" (it rejects; init() returns false).
Settled(call, status, bytes, list) ==
    [call EXCEPT !.pc = "return", !.status = status, !.bytes = bytes, !.list = list]

\* The history of snapshot operations on one id.  data: the bytes of the
\* last completed saveSnapshot(id, .) when it succeeded and no deleteDocument(id)
\* or failed saveSnapshot(id, .) completed after it, else 0.  replaced: the
\* data of the history that this successful saveSnapshot superseded.
NoHistory == [data |-> 0, replaced |-> 0]

Record(h, call, status) ==
    IF call.op = "saveSnapshot" /\ status = "ok"
    THEN [data |-> call.data, replaced |-> h.data]
    ELSE NoHistory

Return(t, status, bytes, list) ==
    /\ scall' = [scall EXCEPT ![t] = Settled(@, status, bytes, list)]
    /\ saved' = IF scall[t].op \in {"saveSnapshot", "deleteDocument"}
                   /\ scall[t].id \in DOMAIN saved
                THEN [saved EXCEPT ![scall[t].id] = Record(@, scall[t], status)]
                ELSE saved

\* The caller takes the settled call's outcome and goes on.
Resume(t) ==
    /\ scall[t].pc = "return"
    /\ scall' = [scall EXCEPT ![t] = Idle]
    /\ UNCHANGED <<root, initialized, dirs, snapshots, updates, now, ncalls,
                   nextRid, saved>>

\* A file with an open writable stream is locked: removeEntry on it rejects.
Locked(name) ==
    \E t \in Callers : scall[t].op = "appendUpdates" /\ scall[t].pc = "close"
                       /\ scall[t].name = name

\* A caller enters a store method.  Every method but init() throws at once
\* when this.root is not set.
Begin(t, op, id, data, pc) ==
    /\ scall[t] = Idle
    /\ ncalls' = IF op \in {"loadDocument", "listDocuments"} THEN ncalls
                 ELSE [ncalls EXCEPT ![t] = @ + 1]
    /\ IF root
       THEN /\ scall' = [scall EXCEPT ![t] = NewCall(op, id, data, pc)]
            /\ UNCHANGED saved
       ELSE /\ scall' = [scall EXCEPT ![t] =
                           Settled(NewCall(op, id, data, pc), "failed", Absent, {})]
            /\ saved' = IF op \in {"saveSnapshot", "deleteDocument"} /\ id \in DOMAIN saved
                        THEN [saved EXCEPT ![id] = Record(@, NewCall(op, id, data, pc), "failed")]
                        ELSE saved
    /\ UNCHANGED <<root, initialized, dirs, snapshots, updates, now, nextRid>>

\* init() (62-82).  An initialized store returns true at once.
StoreInitBegin(t) ==
    /\ scall[t] = Idle
    /\ scall' = [scall EXCEPT ![t] =
                    IF initialized
                    THEN Settled(NewCall("init", <<>>, 0, "root"), "ok", Absent, {})
                    ELSE NewCall("init", <<>>, 0, "root")]
    /\ UNCHANGED <<root, initialized, dirs, snapshots, updates, now, ncalls,
                   nextRid, saved>>

\* navigator.storage.getDirectory() and getDirectoryHandle(KERN_DIR, create):
\* this.root is set.
StoreInitRoot(t) ==
    /\ scall[t].op = "init" /\ scall[t].pc = "root"
    /\ root' = TRUE
    /\ scall' = [scall EXCEPT ![t].pc = "snapshots"]
    /\ UNCHANGED <<initialized, dirs, snapshots, updates, now, ncalls, nextRid, saved>>

\* StoreInitDir with initialized set as soon as the first subdirectory exists.
StoreInitDirEarly(t) ==
    /\ scall[t].op = "init" /\ scall[t].pc \in {"snapshots", "updates"}
    /\ dirs' = dirs \cup {scall[t].pc}
    /\ initialized' = TRUE
    /\ IF scall[t].pc = "snapshots"
       THEN /\ scall' = [scall EXCEPT ![t].pc = "updates"]
            /\ UNCHANGED saved
       ELSE Return(t, "ok", Absent, {})
    /\ UNCHANGED <<root, snapshots, updates, now, ncalls, nextRid>>

\* getDirectoryHandle(SNAPSHOTS_DIR, create), then (UPDATES_DIR, create);
\* after the second, initialized is set and init() returns true.
StoreInitDir(t) ==
    /\ scall[t].op = "init" /\ scall[t].pc \in {"snapshots", "updates"}
    /\ dirs' = dirs \cup {scall[t].pc}
    /\ IF scall[t].pc = "snapshots"
       THEN /\ scall' = [scall EXCEPT ![t].pc = "updates"]
            /\ UNCHANGED <<initialized, saved>>
       ELSE /\ initialized' = TRUE
            /\ Return(t, "ok", Absent, {})
    /\ UNCHANGED <<root, snapshots, updates, now, ncalls, nextRid>>

\* init()'s catch: a step of it rejects and init() returns false.
StoreInitFails(t) ==
    /\ scall[t].op = "init" /\ scall[t].pc \in {"root", "snapshots", "updates"}
    /\ Return(t, "failed", Absent, {})
    /\ UNCHANGED <<root, initialized, dirs, snapshots, updates, now, ncalls, nextRid>>

\* saveSnapshot(id, data) (94-105) is entered.
SaveSnapshotBegin(id, data) ==
    /\ ncalls["fg"] + ncalls["timer"] < MaxStoreCalls
    /\ Begin("fg", "saveSnapshot", id, data, "file")

\* SaveSnapshotWrite with the data written into the file itself instead of
\* the stream's swap file.
SaveSnapshotWriteInPlace(t) ==
    /\ scall[t].op = "saveSnapshot" /\ scall[t].pc = "file"
    /\ "snapshots" \in dirs
    /\ LET name == SnapshotName(scall[t].id) IN
       /\ snapshots' = With(snapshots, name, scall[t].data)
       /\ scall' = [scall EXCEPT ![t].pc = "close", ![t].name = name]
    /\ UNCHANGED <<root, initialized, dirs, updates, now, ncalls, nextRid, saved>>

\* getDirectoryHandle(SNAPSHOTS_DIR); getFileHandle(`${id}.loro`, create):
\* a missing file is created empty.  Then createWritable() and write(data):
\* the data goes to the stream's swap file, the file itself is untouched.
SaveSnapshotWrite(t) ==
    /\ scall[t].op = "saveSnapshot" /\ scall[t].pc = "file"
    /\ "snapshots" \in dirs
    /\ LET name == SnapshotName(scall[t].id) IN
       /\ snapshots' = IF name \in DOMAIN snapshots THEN snapshots ELSE With(snapshots, name, 0)
       /\ scall' = [scall EXCEPT ![t].pc = "close", ![t].name = name]
    /\ UNCHANGED <<root, initialized, dirs, updates, now, ncalls, nextRid, saved>>

\* SaveSnapshotClose with a stream that keeps what the file already holds.
SaveSnapshotCloseKeep(t) ==
    /\ scall[t].op = "saveSnapshot" /\ scall[t].pc = "close"
    /\ snapshots' = IF snapshots[scall[t].name] # 0 THEN snapshots
                    ELSE With(snapshots, scall[t].name, scall[t].data)
    /\ scall' = [scall EXCEPT ![t].pc = "clear", ![t].committed = TRUE]
    /\ UNCHANGED <<root, initialized, dirs, updates, now, ncalls, nextRid, saved>>

\* close(): the swap file replaces the file's content; then clearUpdates(id)
\* is entered.
SaveSnapshotClose(t) ==
    /\ scall[t].op = "saveSnapshot" /\ scall[t].pc = "close"
    /\ snapshots' = With(snapshots, scall[t].name, scall[t].data)
    /\ scall' = [scall EXCEPT ![t].pc = "clear", ![t].committed = TRUE]
    /\ UNCHANGED <<root, initialized, dirs, updates, now, ncalls, nextRid, saved>>

\* deleteDocument(id) (160-172) is entered.
DeleteDocumentBegin(id) ==
    /\ ncalls["fg"] + ncalls["timer"] < MaxStoreCalls
    /\ Begin("fg", "deleteDocument", id, 0, "remove")

\* getDirectoryHandle(SNAPSHOTS_DIR); removeEntry(`${id}.loro`) inside
\* try/catch: whether it removed the file, found none or failed, clearUpdates
\* is entered.
DeleteDocumentRemove(removed) ==
    /\ scall["fg"].op = "deleteDocument" /\ scall["fg"].pc = "remove"
    /\ "snapshots" \in dirs
    /\ LET name == SnapshotName(scall["fg"].id) IN
       snapshots' = IF removed /\ name \in DOMAIN snapshots
                    THEN Without(snapshots, name) ELSE snapshots
    /\ scall' = [scall EXCEPT !["fg"].pc = "clear"]
    /\ UNCHANGED <<root, initialized, dirs, updates, now, ncalls, nextRid, saved>>

\* clearUpdates(id) (177-187): one turn of `for await (entry of
\* updatesDir.values())`.  The iterator yields an entry it has not yielded
\* yet, in no particular order; an entry whose name starts with `${id}-` is
\* removed.
ClearUpdatesNext(t) ==
    /\ scall[t].op \in {"saveSnapshot", "deleteDocument"} /\ scall[t].pc = "clear"
    /\ "updates" \in dirs
    /\ \E name \in DOMAIN updates \ scall[t].seen :
          /\ scall' = [scall EXCEPT
                         ![t].seen = @ \cup {name},
                         ![t].removed =
                             IF Matches(name, scall[t].id)
                                /\ updates[name].owner = scall[t].id
                             THEN @ \cup {updates[name].rid} ELSE @]
          /\ IF Matches(name, scall[t].id)
             THEN ~Locked(name) /\ updates' = Without(updates, name)
             ELSE updates' = updates
    /\ UNCHANGED <<root, initialized, dirs, snapshots, now, ncalls, nextRid, saved>>

\* The iterator is exhausted: clearUpdates returns, and with it saveSnapshot
\* or deleteDocument.
ClearUpdatesDone(t) ==
    /\ scall[t].op \in {"saveSnapshot", "deleteDocument"} /\ scall[t].pc = "clear"
    /\ "updates" \in dirs
    /\ DOMAIN updates \subseteq scall[t].seen
    /\ Return(t, "ok", Absent, {})
    /\ UNCHANGED <<root, initialized, dirs, snapshots, updates, now, ncalls, nextRid>>

\* The readings Date.now() can give: the clock has not gone back since its
\* last reading.
Clock == now..(IF now > MaxClock THEN now ELSE MaxClock)

\* appendUpdates(id, delta) (110-119) is entered by the flush timer.
AppendUpdatesBegin(id, delta) ==
    /\ ncalls["fg"] + ncalls["timer"] < MaxStoreCalls
    /\ Begin("timer", "appendUpdates", id, delta, "file")

\* getDirectoryHandle(UPDATES_DIR); Date.now() reads the clock, which has
\* not gone back since its last reading;
\* getFileHandle(`${id}-${timestamp}.delta`, create): a missing file is
\* created empty, an existing one is opened.
AppendUpdatesFile ==
    /\ scall["timer"].op = "appendUpdates" /\ scall["timer"].pc = "file"
    /\ "updates" \in dirs
    /\ \E timestamp \in Clock :
       LET name == DeltaName(scall["timer"].id, timestamp) IN
       /\ now' = timestamp
       /\ updates' = IF name \in DOMAIN updates THEN updates
                     ELSE With(updates, name,
                               [data |-> 0, rid |-> nextRid + 1, owner |-> scall["timer"].id,
                                timestamp |-> timestamp])
       /\ scall' = [scall EXCEPT !["timer"].pc = "write", !["timer"].name = name,
                                 !["timer"].rid = nextRid + 1]
    /\ nextRid' = nextRid + 1
    /\ UNCHANGED <<root, initialized, dirs, snapshots, ncalls, saved>>

\* createWritable(); write(delta): needs the file to exist still; the data
\* goes to the swap file.
AppendUpdatesWrite ==
    /\ scall["timer"].op = "appendUpdates" /\ scall["timer"].pc = "write"
    /\ scall["timer"].name \in DOMAIN updates
    /\ scall' = [scall EXCEPT !["timer"].pc = "close"]
    /\ UNCHANGED <<root, initialized, dirs, snapshots, updates, now, ncalls,
                   nextRid, saved>>

\* close(): the file's content is replaced by the delta; appendUpdates returns.
AppendUpdatesClose ==
    /\ scall["timer"].op = "appendUpdates" /\ scall["timer"].pc = "close"
    /\ updates' = With(updates, scall["timer"].name,
                       [updates[scall["timer"].name] EXCEPT
                            !.data = scall["timer"].data, !.rid = scall["timer"].rid])
    /\ Return("timer", "ok", Absent, {})
    /\ UNCHANGED <<root, initialized, dirs, snapshots, now, ncalls, nextRid>>

\* A storage step of saveSnapshot, of deleteDocument's clearUpdates or of
\* appendUpdates rejects (an I/O error, a missing directory or file, a locked
\* entry): the call fails where it stands.
StorageError(t) ==
    /\ \/ scall[t].op = "saveSnapshot" /\ scall[t].pc \in {"file", "close", "clear"}
       \/ scall[t].op = "appendUpdates" /\ scall[t].pc \in {"file", "write", "close"}
       \/ scall[t].op = "deleteDocument" /\ scall[t].pc = "clear"
    /\ Return(t, "failed", Absent, {})
    /\ UNCHANGED <<root, initialized, dirs, snapshots, updates, now, ncalls, nextRid>>

\* loadDocument(id) (124-137) is entered.
LoadDocumentBegin(t, id) == Begin(t, "loadDocument", id, 0, "read")

\* LoadDocumentRead without the try/catch: a missing directory or file
\* rejects the call.
LoadDocumentReadThrows(t) ==
    /\ scall[t].op = "loadDocument" /\ scall[t].pc = "read"
    /\ IF "snapshots" \in dirs /\ Stored(snapshots, scall[t].id) # Absent
       THEN Return(t, "ok", Stored(snapshots, scall[t].id), {})
       ELSE Return(t, "failed", Absent, {})
    /\ UNCHANGED <<root, initialized, dirs, snapshots, updates, now, ncalls, nextRid>>

\* getDirectoryHandle, getFileHandle, getFile, arrayBuffer inside try/catch:
\* the file's content, or null when the directory or the file is not there.
LoadDocumentRead(t) ==
    /\ scall[t].op = "loadDocument" /\ scall[t].pc = "read"
    /\ Return(t, "ok",
              IF "snapshots" \in dirs THEN Stored(snapshots, scall[t].id) ELSE Absent, {})
    /\ UNCHANGED <<root, initialized, dirs, snapshots, updates, now, ncalls, nextRid>>

\* listDocuments() (142-155) is entered.
ListDocumentsBegin == Begin("fg", "listDocuments", <<>>, 0, "list")

\* getDirectoryHandle(SNAPSHOTS_DIR) and the loop over its entries.
ListDocumentsRead ==
    /\ scall["fg"].op = "listDocuments" /\ scall["fg"].pc = "list"
    /\ IF "snapshots" \in dirs
       THEN Return("fg", "ok", Absent, ListDocuments(snapshots))
       ELSE Return("fg", "failed", Absent, {})
    /\ UNCHANGED <<root, initialized, dirs, snapshots, updates, now, ncalls, nextRid>>

InitStore ==
    /\ root = FALSE
    /\ initialized = FALSE
    /\ dirs = {}
    /\ snapshots = <<>>
    /\ updates = <<>>
    /\ now = 0
    /\ scall = [t \in Callers |-> Idle]
    /\ ncalls = [t \in Callers |-> 0]
    /\ nextRid = 0
    /\ saved = [id \in DocIds |-> NoHistory]

NextStore ==
    \/ StoreInitBegin("fg") /\ UNCHANGED <<clientVars, coordVars, editorVars>>
    \/ StoreInitRoot("fg") /\ UNCHANGED <<clientVars, coordVars, editorVars>>
    \/ StoreInitDir("fg") /\ UNCHANGED <<clientVars, coordVars, editorVars>>
    \/ StoreInitFails("fg") /\ UNCHANGED <<clientVars, coordVars, editorVars>>
    \/ \E id \in DocIds, data \in Bytes : SaveSnapshotBegin(id, data) /\ UNCHANGED <<clientVars, coordVars, editorVars>>
    \/ SaveSnapshotWrite("fg") /\ UNCHANGED <<clientVars, coordVars, editorVars>>
    \/ SaveSnapshotClose("fg") /\ UNCHANGED <<clientVars, coordVars, editorVars>>
    \/ \E id \in DocIds : DeleteDocumentBegin(id) /\ UNCHANGED <<clientVars, coordVars, editorVars>>
    \/ \E removed \in BOOLEAN : DeleteDocumentRemove(removed) /\ UNCHANGED <<clientVars, coordVars, editorVars>>
    \/ ClearUpdatesNext("fg") /\ UNCHANGED <<clientVars, coordVars, editorVars>>
    \/ ClearUpdatesDone("fg") /\ UNCHANGED <<clientVars, coordVars, editorVars>>
    \/ \E id \in DocIds, delta \in Deltas : AppendUpdatesBegin(id, delta) /\ UNCHANGED <<clientVars, coordVars, editorVars>>
    \/ AppendUpdatesFile /\ UNCHANGED <<clientVars, coordVars, editorVars>>
    \/ AppendUpdatesWrite /\ UNCHANGED <<clientVars, coordVars, editorVars>>
    \/ AppendUpdatesClose /\ UNCHANGED <<clientVars, coordVars, editorVars>>
    \/ \E t \in {"fg", "timer"} : StorageError(t) /\ UNCHANGED <<clientVars, coordVars, editorVars>>
    \/ \E id \in DocIds : LoadDocumentBegin("fg", id) /\ UNCHANGED <<clientVars, coordVars, editorVars>>
    \/ LoadDocumentRead("fg") /\ UNCHANGED <<clientVars, coordVars, editorVars>>
    \/ ListDocumentsBegin /\ UNCHANGED <<clientVars, coordVars, editorVars>>
    \/ ListDocumentsRead /\ UNCHANGED <<clientVars, coordVars, editorVars>>
    \/ \E t \in {"fg", "timer"} : Resume(t) /\ UNCHANGED <<clientVars, coordVars, editorVars>>

(***************************************************************************)
(* Durable Store: the claims.                                              *)
(***************************************************************************)
\* The foreground call of method op has settled with the given status.
Returned(op, status) ==
    scall["fg"].op = op /\ scall["fg"].pc = "return" /\ scall["fg"].status = status

\* The step on which the foreground call of method op settles.
Settles(op) ==
    scall'["fg"].op = op /\ scall["fg"].pc # "return" /\ scall'["fg"].pc = "return"

\* C5: when saveSnapshot(id, b) returns success, listDocuments() includes id
\* and no delta record stored for id before the call still exists.
C5_SnapshotSupersedesDeltas ==
    Returned("saveSnapshot", "ok") =>
        /\ scall["fg"].id \in ListDocuments(snapshots)
        /\ \A n \in DOMAIN updates :
              ~(updates[n].owner = scall["fg"].id /\ updates[n].rid <= scall["fg"].preRid)

\* C6: once the last completed snapshot operation on id is a successful
\* saveSnapshot(id, b), there is exactly one snapshot blob for id, it holds b,
\* and loadDocument(id) returns exactly b.
C6_ReplaceSemantics ==
    \A id \in DocIds :
        saved[id].data # 0 =>
            /\ \/ scall["fg"].op \in {"saveSnapshot", "deleteDocument"}
                  /\ scall["fg"].id = id /\ scall["fg"].pc # "return"
               \/ /\ Cardinality({n \in DOMAIN snapshots : n = SnapshotName(id)}) = 1
                  /\ Stored(snapshots, id) = saved[id].data
            /\ (Returned("loadDocument", "ok") /\ scall["fg"].id = id)
                  => scall["fg"].bytes = saved[id].data

\* loadDocument(id) has returned the bytes of the second of two successful
\* saveSnapshot(id, .) calls with different bytes.
C6_Witness ==
    /\ Returned("loadDocument", "ok")
    /\ saved[scall["fg"].id].data \in Bytes
    /\ saved[scall["fg"].id].replaced \in Bytes \ {saved[scall["fg"].id].data}
    /\ scall["fg"].bytes = saved[scall["fg"].id].data

\* C7 as stated: whenever saveSnapshot(id, b) fails, the snapshot stored for
\* id before the call is still what is stored, and no delta record of id
\* stored before the call has been removed.
C7_FailedSaveLeavesAllIntact ==
    [][(Settles("saveSnapshot") /\ scall'["fg"].status = "failed")
         => /\ saved[scall'["fg"].id].data # 0
                 => Stored(snapshots', scall'["fg"].id) = saved[scall'["fg"].id].data
            /\ \A r \in scall'["fg"].removed : r > scall'["fg"].preRid]_vars

\* C7 amended: until its snapshot write is committed, no step of
\* saveSnapshot(id, b) changes or removes a stored snapshot or a delta record;
\* the call removes delta records only after the commit.
C7_NoDestructiveStepBeforeCommit ==
    [][(scall["fg"].op = "saveSnapshot" /\ scall'["fg"] # scall["fg"])
         => /\ ~scall'["fg"].committed
                 => /\ \A n \in DOMAIN snapshots :
                          n \in DOMAIN snapshots' /\ snapshots'[n] = snapshots[n]
                    /\ updates' = updates
            /\ updates' # updates => scall["fg"].committed]_vars

\* saveSnapshot(id, b) has failed before its commit while a snapshot of id
\* with other bytes and a delta record of id were stored: both are still there.
C7_Witness ==
    /\ Returned("saveSnapshot", "failed")
    /\ ~scall["fg"].committed
    /\ Stored(snapshots, scall["fg"].id) \in Bytes \ {scall["fg"].data}
    /\ \E n \in DOMAIN updates :
          /\ updates[n].owner = scall["fg"].id
          /\ updates[n].rid <= scall["fg"].preRid
          /\ updates[n].data \in Deltas

\* C8: appendUpdates(id, bytes) writes under a name that no existing record
\* has and that is ordered after every earlier record of id, and its
\* successful return leaves every other record as it was: no record is
\* overwritten, also when two appends read the same clock value.
C8_AppendNeverOverwrites ==
    [][/\ (scall["timer"].op = "appendUpdates" /\ scall["timer"].pc = "file"
             /\ scall'["timer"].pc = "write")
          => /\ scall'["timer"].name \notin DOMAIN updates
             /\ \A n \in DOMAIN updates :
                   updates[n].owner = scall["timer"].id
                      => updates[n].timestamp < updates'[scall'["timer"].name].timestamp
       /\ (scall["timer"].op = "appendUpdates" /\ scall["timer"].pc = "close"
             /\ scall'["timer"].pc = "return" /\ scall'["timer"].status = "ok")
          => /\ updates[scall["timer"].name].rid = scall["timer"].rid
             /\ \A n \in DOMAIN updates \ {scall["timer"].name} :
                   n \in DOMAIN updates' /\ updates'[n] = updates[n]]_vars

\* C9: a delta record of document id is removed only by saveSnapshot(id, .)
\* after its snapshot write, or by deleteDocument(id); a step of
\* saveSnapshot(id, .) or deleteDocument(id) leaves the snapshot and the delta
\* records of every other id as they were.
C9_DeletionScope ==
    [][/\ \A n \in DOMAIN updates :
             n \notin DOMAIN updates'
                => /\ scall["fg"].op \in {"saveSnapshot", "deleteDocument"}
                   /\ scall["fg"].id = updates[n].owner
                   /\ scall["fg"].op = "saveSnapshot" => scall["fg"].committed
       /\ (scall["fg"].op \in {"saveSnapshot", "deleteDocument"}
             /\ scall'["fg"] # scall["fg"])
          => \A id \in DocIds \ {scall["fg"].id} :
                /\ Stored(snapshots', id) = Stored(snapshots, id)
                /\ \A n \in DOMAIN updates :
                      updates[n].owner = id
                         => n \in DOMAIN updates' /\ updates'[n] = updates[n]]_vars

\* The methods of the store that need init() to have succeeded (getStats,
\* which has the same guard as the others and only reads, is not modelled).
StoreMethods == {"saveSnapshot", "appendUpdates", "loadDocument", "listDocuments",
                 "deleteDocument"}

\* init() has not completed successfully and is not running: it was never
\* called, or every call of it has returned false.
NotInitialized ==
    /\ ~initialized
    /\ \A u \in Callers : scall[u].op = "init" => scall[u].pc = "return"

\* C28: whenever init() has not completed successfully (never called, or it
\* returned false at any step), each of saveSnapshot, appendUpdates,
\* loadDocument, listDocuments and deleteDocument fails at once with the
\* "not initialized" condition, and no step of such a call changes a stored
\* snapshot or delta record.
C28_NotInitializedMisuse ==
    [][\A t \in {"fg", "timer"} :
          /\ (scall[t] = Idle /\ scall'[t].op \in StoreMethods /\ NotInitialized)
                => (scall'[t].pc = "return" /\ scall'[t].status = "failed")
          /\ (scall[t].op \in StoreMethods /\ scall'[t] # scall[t] /\ NotInitialized)
                => (snapshots' = snapshots /\ updates' = updates)]_vars

\* C29: init() does not raise: it settles by returning true or false.  It
\* returns true only once the root and both subareas exist, and false only
\* when a step of it has failed, the store then not being initialized; a
\* call made after a success returns true at once and touches nothing; no
\* step of init() changes a stored snapshot or delta record.
C29_InitContract ==
    [][\A t \in Callers :
          (scall'[t].op = "init" /\ scall'[t] # scall[t]) =>
             /\ snapshots' = snapshots /\ updates' = updates
             /\ scall'[t].pc = "return" =>
                   /\ scall'[t].status \in {"ok", "failed"}
                   /\ scall'[t].status = "ok"
                         => (root' /\ dirs' = {"snapshots", "updates"} /\ initialized')
                   /\ scall'[t].status = "failed" => ~initialized'
             /\ (scall[t] = Idle /\ initialized)
                   => /\ scall'[t].pc = "return" /\ scall'[t].status = "ok"
                      /\ root' = root /\ dirs' = dirs]_vars

\* init() has returned true for a call made after an earlier success, with a
\* snapshot and a delta record stored.
C29_Witness ==
    /\ Returned("init", "ok")
    /\ \E n \in DOMAIN snapshots : snapshots[n] \in Bytes
    /\ \E n \in DOMAIN updates : updates[n].data \in Deltas

\* C30: on an initialized store, loadDocument(id) for an id that has no
\* snapshot returns the absent result and does not fail, and no step of the
\* call changes the store.
C30_LoadMissingIsAbsent ==
    [][/\ (Settles("loadDocument") /\ initialized
            /\ Stored(snapshots, scall["fg"].id) = Absent)
          => (scall'["fg"].status = "ok" /\ scall'["fg"].bytes = Absent)
       /\ (scall'["fg"].op = "loadDocument" /\ scall'["fg"] # scall["fg"])
          => /\ root' = root /\ initialized' = initialized /\ dirs' = dirs
             /\ snapshots' = snapshots /\ updates' = updates]_vars

\* loadDocument(id) has returned the absent result on an initialized store
\* that holds the snapshot of another document.
C30_Witness ==
    /\ Returned("loadDocument", "ok")
    /\ scall["fg"].bytes = Absent
    /\ initialized
    /\ \E id \in DocIds \ {scall["fg"].id} : Stored(snapshots, id) \in Bytes

\* C31: when deleteDocument(id) returns success, whether or not a snapshot
\* was stored for id, loadDocument(id) reads absent, listDocuments() does not
\* contain id, and no delta record of id exists.
C31_DeleteDocumentContract ==
    [][(Settles("deleteDocument") /\ scall'["fg"].status = "ok")
         => /\ Stored(snapshots', scall'["fg"].id) = Absent
            /\ scall'["fg"].id \notin ListDocuments(snapshots')
            /\ \A n \in DOMAIN updates' : updates'[n].owner # scall'["fg"].id]_vars

\* C32: listDocuments() returns exactly the ids that have a file in the
\* snapshots directory, each id unchanged, and no other id.
C32_ListDocumentsExact ==
    [][(Settles("listDocuments") /\ scall'["fg"].status = "ok")
         => scall'["fg"].list = {id \in DocIds : SnapshotName(id) \in DOMAIN snapshots'}]_vars

\* C40: saveSnapshot(id, b) removes only delta records that existed when it
\* was called: a record of id that an appendUpdates(id, d) completed while
\* the call was suspended is not removed by it.
C40_CompactionKeepsNewerDeltas ==
    [][\A n \in DOMAIN updates :
          (/\ scall["fg"].op = "saveSnapshot" /\ scall'["fg"] # scall["fg"]
           /\ updates[n].owner = scall["fg"].id
           /\ updates[n].data \in Deltas
           /\ updates[n].rid > scall["fg"].preRid)
             => n \in DOMAIN updates']_vars

(***************************************************************************)
(* Document Coordinator (part_007:236-438).  A coordinator call is an      *)
(* async function: it runs up to an await, and its continuation runs as a  *)
(* microtask once the awaited promise has settled, before the event loop   *)
(* takes its next task (a worker response, a call of the interactive       *)
(* surface).                                                               *)
(***************************************************************************)
\* currentDocId's initial value, 'default'.
DefaultDocId == <<"default">>

\* documentView's initial value, {lines: [], version: 0}.  A view the engine
\* returned is named by the id of the request the response answers.
EmptyView == 0

\* A timer that was never set, or that clearInterval has cancelled.
NoTimer == -1

\* A coordinator call: the function, where it is suspended, the request it
\* awaits (req), its opfsAvailable constant, loadDocument's argument (docId),
\* and as history the first request it made (mut: the edit of an edit call,
\* the init of initStore, the export of a document call), whether it has
\* called setDocumentView, what opfsStorage.init() returned to it, the
\* current id and the view when the call was made (prevId, prevView), how
\* its saveDocument() body ended (save), the id it passed to saveSnapshot
\* (savedId), the request with which loadDocument put the document into the
\* engine (load) and whether it ended in a catch block (caught).  A
\* setupAutoSave() call holds its two timers, each as the time it fires next
\* (snapshotInterval, flushInterval), and as history the time its cleanup
\* ran (at); a flush callback holds the updates it has still to append (rest).
NewCoordCall(op, pc, req, opfsAvailable) ==
    [op |-> op, pc |-> pc, req |-> req, mut |-> req,
     opfsAvailable |-> opfsAvailable, published |-> FALSE, initOk |-> TRUE,
     docId |-> <<>>, prevId |-> currentDocId, prevView |-> documentView,
     save |-> "none", savedId |-> <<>>, load |-> 0, caught |-> FALSE,
     snapshotInterval |-> NoTimer, flushInterval |-> NoTimer, at |-> 0,
     rest |-> <<>>]

\* The coordinator call's name as a caller of the store.
Slot(c) == ToString(c)

\* The call awaits an Engine Client promise that has settled with status st.
EngineSettled(c, st) ==
    /\ coord[c].pc \in {"engine", "bytes", "view", "edit", "text", "export", "seed"}
    /\ reqs[coord[c].req].status = st

\* The call awaits a Durable Store promise that has settled.
StoreSettled(c) ==
    /\ coord[c].pc \in {"store", "load", "save"}
    /\ scall[Slot(c)].pc = "return"

\* A continuation is ready to run.
Runnable(c) ==
    \/ EngineSettled(c, "resolved")
    \/ EngineSettled(c, "rejected")
    \/ StoreSettled(c)
    \/ coord[c].pc \in {"switched", "next"}
    \/ coord[c].pc = "append" /\ scall["timer"].pc = "return"

NoMicrotask == \A c \in DOMAIN coord : ~Runnable(c)

NumCalls(ops) == Cardinality({c \in DOMAIN coord : coord[c].op \in ops})

DocOps == {"saveDocument", "loadDocument"}

CallOps == {"applyEdit", "setDocumentText"} \cup DocOps

\* opfsStorage.isAvailable(): a constant of the environment, fixed by the
\* first call that looks at it.
IsAvailable(b) ==
    \A c \in DOMAIN coord : coord[c].op = "initStore" => coord[c].opfsAvailable = b

\* A request of this kind is outstanding.  The interactive surface keeps the
\* constraint documented for the Engine Client's callers: it makes no call
\* that would issue a request of a kind of which one is still outstanding.
OutstandingKind(kind) == \E r \in Outstanding : reqs[r].kind = kind

\* The continuation issues the next Engine Client request and awaits it.
Await(c, kind, arg, pc) ==
    /\ Call(kind, arg)
    /\ coord' = [coord EXCEPT ![c].pc = pc, ![c].req = Len(reqs) + 1]

\* initStore() (264-305) up to its first await; it returns at once when
\* isInitialized is set.
initStore ==
    /\ NoMicrotask
    /\ ~isInitialized
    /\ NumCalls({"initStore"}) < MaxInitStore
    /\ isLoading' = TRUE
    /\ error' = <<>>
    /\ \E opfsAvailable \in BOOLEAN :
          /\ IsAvailable(opfsAvailable)
          /\ IF opfsAvailable
             THEN /\ StoreInitBegin(Slot(Len(coord) + 1))
                  /\ coord' = Append(coord, NewCoordCall("initStore", "store", 0, TRUE))
                  /\ UNCHANGED clientVars
             ELSE /\ ClientInit
                  /\ coord' = Append(coord, NewCoordCall("initStore", "engine",
                                                         Len(reqs) + 1, FALSE))
                  /\ UNCHANGED storeVars
    /\ UNCHANGED <<isInitialized, documentView, currentDocId, engineHealth,
                   lastSnapshotTime, pendingUpdates>>

\* opfsStorage.init() has returned (true or false, not looked at):
\* kernEngine.init().
initStoreEngine(c) ==
    /\ coord[c].op = "initStore" /\ coord[c].pc = "store"
    /\ StoreSettled(c)
    /\ Resume(Slot(c))
    /\ ClientInit
    /\ coord' = [coord EXCEPT ![c].pc = "engine", ![c].req = Len(reqs) + 1,
                              ![c].mut = Len(reqs) + 1,
                              ![c].initOk = (scall[Slot(c)].status = "ok")]
    /\ UNCHANGED signals

\* kernEngine.init() has resolved: setEngineHealth(health); then
\* opfsStorage.loadDocument(currentDocId()) when OPFS is available, else
\* kernEngine.getView().
initStoreHealth(c) ==
    /\ coord[c].op = "initStore" /\ coord[c].pc = "engine"
    /\ EngineSettled(c, "resolved")
    /\ engineHealth' = <<reqs[coord[c].req].value>>
    /\ IF coord[c].opfsAvailable
       THEN /\ LoadDocumentBegin(Slot(c), currentDocId)
            /\ coord' = [coord EXCEPT ![c].pc = "load"]
            /\ UNCHANGED clientVars
       ELSE /\ Await(c, "get_view", NoArg, "view")
            /\ UNCHANGED storeVars
    /\ UNCHANGED <<isInitialized, isLoading, error, documentView, currentDocId,
                   lastSnapshotTime, pendingUpdates>>

\* opfsStorage.loadDocument has settled: a rejection goes to the catch; saved
\* data goes to kernEngine.loadFromBytes; null goes on to kernEngine.getView().
initStoreLoaded(c) ==
    /\ coord[c].op = "initStore" /\ coord[c].pc = "load"
    /\ StoreSettled(c)
    /\ Resume(Slot(c))
    /\ IF scall[Slot(c)].status = "failed"
       THEN /\ error' = <<0>>
            /\ isLoading' = FALSE
            /\ coord' = [coord EXCEPT ![c].pc = "done"]
            /\ UNCHANGED clientVars
       ELSE /\ IF scall[Slot(c)].bytes # Absent
               THEN Await(c, "load_from_bytes", Data(scall[Slot(c)].bytes), "bytes")
               ELSE Await(c, "get_view", NoArg, "view")
            /\ UNCHANGED <<error, isLoading>>
    /\ UNCHANGED <<isInitialized, documentView, currentDocId, engineHealth,
                   lastSnapshotTime, pendingUpdates>>

\* kernEngine.getView() has resolved (or loadFromBytes before it):
\* setDocumentView(view), setIsInitialized(true), setLastSnapshotTime(Date.now()),
\* and the finally block.
initStoreView(c) ==
    /\ coord[c].op = "initStore" /\ coord[c].pc \in {"bytes", "view"}
    /\ EngineSettled(c, "resolved")
    /\ IF coord[c].pc = "bytes"
       THEN /\ Await(c, "get_view", NoArg, "view")
            /\ UNCHANGED <<storeVars, signals>>
       ELSE /\ documentView' = reqs[coord[c].req].value
            /\ isInitialized' = TRUE
            /\ \E t \in Clock : now' = t /\ lastSnapshotTime' = t
            /\ isLoading' = FALSE
            /\ coord' = [coord EXCEPT ![c].pc = "done", ![c].published = TRUE]
            /\ UNCHANGED <<clientVars, root, initialized, dirs, snapshots, updates,
                           scall, ncalls, nextRid, saved, error, currentDocId,
                           engineHealth, pendingUpdates>>

\* initStore's catch: setError(message), then the finally block.
initStoreCatch(c) ==
    /\ coord[c].op = "initStore"
    /\ EngineSettled(c, "rejected")
    /\ error' = <<reqs[coord[c].req].value>>
    /\ isLoading' = FALSE
    /\ coord' = [coord EXCEPT ![c].pc = "done"]
    /\ UNCHANGED <<clientVars, storeVars, isInitialized, documentView, currentDocId,
                   engineHealth, lastSnapshotTime, pendingUpdates>>

\* applyEdit without its first line: the edit goes to the Engine Client
\* whether or not the store is initialized.
applyEditUnguarded ==
    /\ NoMicrotask
    /\ ~OutstandingKind("apply_edit") /\ ~OutstandingKind("get_view")
    /\ Call("apply_edit", Delta)
    /\ coord' = Append(coord, NewCoordCall("applyEdit", "edit", Len(reqs) + 1, FALSE))
    /\ UNCHANGED <<storeVars, signals>>

\* applyEdit(delta) (310-320) up to its first await; nothing happens when the
\* store is not initialized.
applyEdit ==
    /\ NoMicrotask
    /\ IF ~isInitialized
       THEN /\ coord' = Append(coord, NewCoordCall("applyEdit", "done", 0, FALSE))
            /\ UNCHANGED clientVars
       ELSE /\ ~OutstandingKind("apply_edit") /\ ~OutstandingKind("get_view")
            /\ Call("apply_edit", Delta)
            /\ coord' = Append(coord, NewCoordCall("applyEdit", "edit", Len(reqs) + 1, FALSE))
    /\ UNCHANGED <<storeVars, signals>>

\* kernEngine.applyEdit has resolved: kernEngine.getView().
applyEditGetView(c) ==
    /\ coord[c].op = "applyEdit" /\ coord[c].pc = "edit"
    /\ EngineSettled(c, "resolved")
    /\ Await(c, "get_view", NoArg, "view")
    /\ UNCHANGED <<storeVars, signals>>

\* setDocumentText(content) (325-334) up to its await; nothing happens when
\* the store is not initialized.
setDocumentText ==
    /\ NoMicrotask
    /\ IF ~isInitialized
       THEN /\ coord' = Append(coord, NewCoordCall("setDocumentText", "done", 0, FALSE))
            /\ UNCHANGED clientVars
       ELSE /\ ~OutstandingKind("set_text")
            /\ Call("set_text", Content(<<"text">>))
            /\ coord' = Append(coord, NewCoordCall("setDocumentText", "text",
                                                   Len(reqs) + 1, FALSE))
    /\ UNCHANGED <<storeVars, signals>>

\* The view has arrived (getView of applyEdit, setText of setDocumentText):
\* setDocumentView(view).
setDocumentView(c) ==
    /\ \/ coord[c].op = "applyEdit" /\ coord[c].pc = "view"
       \/ coord[c].op = "setDocumentText" /\ coord[c].pc = "text"
    /\ EngineSettled(c, "resolved")
    /\ documentView' = reqs[coord[c].req].value
    /\ coord' = [coord EXCEPT ![c].pc = "done", ![c].published = TRUE]
    /\ UNCHANGED <<clientVars, storeVars, isInitialized, isLoading, error,
                   currentDocId, engineHealth, lastSnapshotTime, pendingUpdates>>

\* The catch of applyEdit and of setDocumentText: the failure is logged.
editCatch(c) ==
    /\ coord[c].op \in {"applyEdit", "setDocumentText"}
    /\ EngineSettled(c, "rejected")
    /\ coord' = [coord EXCEPT ![c].pc = "done"]
    /\ UNCHANGED <<clientVars, storeVars, signals>>

\* `# ${docId}\n\nStart typing...`, the body of a new document.
Placeholder(docId) == <<"# ">> \o docId \o <<"Start typing...">>

\* The view the coordinator has published: the initial value, or the view a
\* response carried.
ViewOf(v) == IF v = EmptyView THEN EmptyDoc ELSE results[v].doc

\* The ids loadDocument is called with.
LoadIds == {DefaultDocId, <<"a">>}

\* opfsStorage.isAvailable(), as the initStore call found it.
OpfsAvailable == \E c \in DOMAIN coord : coord[c].op = "initStore" /\ coord[c].opfsAvailable

\* A document call is made, by the interactive surface or by the snapshot
\* timer: the event loop runs it as a task of its own.
DocCall == NoMicrotask

\* saveDocument() (339-351) up to its await: it returns at once when the store
\* is not initialized or OPFS is not available, else kernEngine.exportSnapshot().
\* calls: the coordinator's calls when saveDocument() is entered.
saveDocumentOn(calls) ==
    /\ DocCall
    /\ IF ~isInitialized \/ ~OpfsAvailable
       THEN /\ coord' = Append(calls, NewCoordCall("saveDocument", "done", 0, FALSE))
            /\ UNCHANGED clientVars
       ELSE /\ ~OutstandingKind("export_snapshot")
            /\ Call("export_snapshot", NoArg)
            /\ coord' = Append(calls, NewCoordCall("saveDocument", "export",
                                                   Len(reqs) + 1, TRUE))
    /\ UNCHANGED <<storeVars, signals>>

\* saveDocument() called by the interactive surface.
saveDocument == saveDocumentOn(coord)

\* loadDocument(docId) (356-386) up to its first await: it returns at once
\* when the store is not initialized; else setIsLoading(true) and
\* saveDocument(), which exports a snapshot, or with OPFS unavailable returns
\* at once, and then setCurrentDocId(docId) and kernEngine.getView().
loadDocument(docId) ==
    /\ DocCall
    /\ IF ~isInitialized
       THEN /\ coord' = Append(coord, [NewCoordCall("loadDocument", "done", 0, FALSE)
                                          EXCEPT !.docId = docId])
            /\ UNCHANGED <<clientVars, signals>>
       ELSE /\ isLoading' = TRUE
            /\ IF OpfsAvailable
               THEN /\ ~OutstandingKind("export_snapshot")
                    /\ Call("export_snapshot", NoArg)
                    /\ coord' = Append(coord,
                                  [NewCoordCall("loadDocument", "export", Len(reqs) + 1, TRUE)
                                      EXCEPT !.docId = docId])
                    /\ UNCHANGED currentDocId
               ELSE /\ ~OutstandingKind("get_view")
                    /\ currentDocId' = docId
                    /\ Call("get_view", NoArg)
                    /\ coord' = Append(coord,
                                  [NewCoordCall("loadDocument", "view", Len(reqs) + 1, FALSE)
                                      EXCEPT !.docId = docId])
            /\ UNCHANGED <<isInitialized, error, documentView, engineHealth,
                           lastSnapshotTime, pendingUpdates>>
    /\ UNCHANGED storeVars

\* saveDocument()'s body, exportSnapshot() has resolved:
\* opfsStorage.saveSnapshot(currentDocId(), snapshot).
saveDocumentExported(c) ==
    /\ coord[c].op \in DocOps /\ coord[c].pc = "export"
    /\ EngineSettled(c, "resolved")
    /\ Begin(Slot(c), "saveSnapshot", currentDocId, reqs[coord[c].req].value, "file")
    /\ coord' = [coord EXCEPT ![c].pc = "save", ![c].savedId = currentDocId]
    /\ UNCHANGED <<clientVars, signals>>

\* The end of saveDocument()'s body.  saveSnapshot has returned:
\* setLastSnapshotTime(Date.now()) and setPendingUpdates([]).  exportSnapshot
\* or saveSnapshot has rejected: the catch logs the failure.
SaveEnds(c) ==
    /\ coord[c].op \in DocOps
    /\ IF coord[c].pc = "save"
       THEN /\ StoreSettled(c)
            /\ scall' = [scall EXCEPT ![Slot(c)] = Idle]
            /\ IF scall[Slot(c)].status = "ok"
               THEN /\ \E t \in Clock : now' = t /\ lastSnapshotTime' = t
                    /\ pendingUpdates' = <<>>
               ELSE UNCHANGED <<now, lastSnapshotTime, pendingUpdates>>
       ELSE /\ coord[c].pc = "export"
            /\ EngineSettled(c, "rejected")
            /\ UNCHANGED <<scall, now, lastSnapshotTime, pendingUpdates>>
    /\ UNCHANGED <<clientVars, root, initialized, dirs, snapshots, updates, ncalls,
                   nextRid, saved, isInitialized, error, documentView, engineHealth>>

\* How the body ended, for the call's record.
SaveStatus(c) ==
    IF coord[c].pc = "save" /\ scall[Slot(c)].status = "ok" THEN "ok" ELSE "failed"

\* saveDocument() returns.
saveDocumentEnds(c) ==
    /\ coord[c].op = "saveDocument"
    /\ SaveEnds(c)
    /\ coord' = [coord EXCEPT ![c].pc = "done", ![c].save = SaveStatus(c),
                              ![c].caught = (SaveStatus(c) = "failed")]
    /\ UNCHANGED <<isLoading, currentDocId>>

\* loadDocument: its saveDocument() has returned, setCurrentDocId(docId).
loadDocumentSwitch(c) ==
    /\ coord[c].op = "loadDocument"
    /\ SaveEnds(c)
    /\ currentDocId' = coord[c].docId
    /\ coord' = [coord EXCEPT ![c].pc = "switched", ![c].save = SaveStatus(c)]
    /\ UNCHANGED isLoading

\* loadDocument, OPFS available: opfsStorage.loadDocument(docId).
loadDocumentLoad(c) ==
    /\ coord[c].op = "loadDocument" /\ coord[c].pc = "switched"
    /\ LoadDocumentBegin(Slot(c), coord[c].docId)
    /\ coord' = [coord EXCEPT ![c].pc = "load"]
    /\ UNCHANGED <<clientVars, signals>>

\* loadDocumentLoaded with the saved data not looked at: the placeholder is
\* seeded whether or not a snapshot was read.
loadDocumentLoadedSeeds(c) ==
    /\ coord[c].op = "loadDocument" /\ coord[c].pc = "load"
    /\ StoreSettled(c)
    /\ Resume(Slot(c))
    /\ IF scall[Slot(c)].status = "failed"
       THEN /\ isLoading' = FALSE
            /\ coord' = [coord EXCEPT ![c].pc = "done", ![c].caught = TRUE]
            /\ UNCHANGED clientVars
       ELSE /\ Call("set_text", Content(Placeholder(coord[c].docId)))
            /\ coord' = [coord EXCEPT ![c].pc = "seed", ![c].req = Len(reqs) + 1,
                                      ![c].load = Len(reqs) + 1]
            /\ UNCHANGED isLoading
    /\ UNCHANGED <<isInitialized, error, documentView, currentDocId, engineHealth,
                   lastSnapshotTime, pendingUpdates>>

\* loadDocument: opfsStorage.loadDocument has settled.  A rejection goes to
\* the catch and the finally block; saved data goes to
\* kernEngine.loadFromBytes, null to kernEngine.setText (the placeholder).
loadDocumentLoaded(c) ==
    /\ coord[c].op = "loadDocument" /\ coord[c].pc = "load"
    /\ StoreSettled(c)
    /\ Resume(Slot(c))
    /\ IF scall[Slot(c)].status = "failed"
       THEN /\ isLoading' = FALSE
            /\ coord' = [coord EXCEPT ![c].pc = "done", ![c].caught = TRUE]
            /\ UNCHANGED clientVars
       ELSE /\ IF scall[Slot(c)].bytes # Absent
               THEN Call("load_from_bytes", Data(scall[Slot(c)].bytes))
               ELSE Call("set_text", Content(Placeholder(coord[c].docId)))
            /\ coord' = [coord EXCEPT
                            ![c].pc = IF scall[Slot(c)].bytes # Absent THEN "bytes" ELSE "seed",
                            ![c].req = Len(reqs) + 1, ![c].load = Len(reqs) + 1]
            /\ UNCHANGED isLoading
    /\ UNCHANGED <<isInitialized, error, documentView, currentDocId, engineHealth,
                   lastSnapshotTime, pendingUpdates>>

\* loadDocument: the engine holds the document, kernEngine.getView().
loadDocumentGetView(c) ==
    /\ coord[c].op = "loadDocument" /\ coord[c].pc \in {"bytes", "seed"}
    /\ EngineSettled(c, "resolved")
    /\ Await(c, "get_view", NoArg, "view")
    /\ UNCHANGED <<storeVars, signals>>

\* loadDocument: the view has arrived, setDocumentView(view) and the finally
\* block.
loadDocumentView(c) ==
    /\ coord[c].op = "loadDocument" /\ coord[c].pc = "view"
    /\ EngineSettled(c, "resolved")
    /\ documentView' = reqs[coord[c].req].value
    /\ isLoading' = FALSE
    /\ coord' = [coord EXCEPT ![c].pc = "done", ![c].published = TRUE]
    /\ UNCHANGED <<clientVars, storeVars, isInitialized, error, currentDocId,
                   engineHealth, lastSnapshotTime, pendingUpdates>>

\* loadDocument without its catch: the finally block runs and the rejection
\* goes on to the caller.
loadDocumentRethrow(c) ==
    /\ coord[c].op = "loadDocument" /\ coord[c].pc \in {"bytes", "seed", "view"}
    /\ EngineSettled(c, "rejected")
    /\ isLoading' = FALSE
    /\ coord' = [coord EXCEPT ![c].pc = "threw"]
    /\ UNCHANGED <<clientVars, storeVars, isInitialized, error, documentView,
                   currentDocId, engineHealth, lastSnapshotTime, pendingUpdates>>

\* loadDocument's catch (the failure is logged) and its finally block.
loadDocumentCatch(c) ==
    /\ coord[c].op = "loadDocument" /\ coord[c].pc \in {"bytes", "seed", "view"}
    /\ EngineSettled(c, "rejected")
    /\ isLoading' = FALSE
    /\ coord' = [coord EXCEPT ![c].pc = "done", ![c].caught = TRUE]
    /\ UNCHANGED <<clientVars, storeVars, isInitialized, error, documentView,
                   currentDocId, engineHealth, lastSnapshotTime, pendingUpdates>>

(***************************************************************************)
(* setupAutoSave() (part_007:404-428) and its two timers.  A timer fires   *)
(* when its time has come: time does not pass a timer that is due.         *)
(***************************************************************************)
\* FLUSH_INTERVAL and SNAPSHOT_INTERVAL (258-259), in units of 1000 ms.
FLUSH_INTERVAL == 5

SNAPSHOT_INTERVAL == 30

\* The setupAutoSave() calls made.
AutoSave == {c \in DOMAIN coord : coord[c].op = "setupAutoSave"}

\* setupAutoSave() (404-428): both setInterval calls.  The root component
\* calls it once, when its `await initStore()` has returned (index.tsx:15-21).
setupAutoSave ==
    /\ NoMicrotask
    /\ \E c \in DOMAIN coord : coord[c].op = "initStore" /\ coord[c].pc = "done"
    /\ AutoSave = {}
    /\ coord' = Append(coord, [NewCoordCall("setupAutoSave", "armed", 0, FALSE)
                                  EXCEPT !.snapshotInterval = now + SNAPSHOT_INTERVAL,
                                         !.flushInterval = now + FLUSH_INTERVAL])
    /\ UNCHANGED <<clientVars, storeVars, signals>>

\* cleanup with its second clearInterval left out: the flush timer goes on.
cleanupSnapshotOnly(c) ==
    /\ NoMicrotask
    /\ coord[c].op = "setupAutoSave" /\ coord[c].pc = "armed"
    /\ coord' = [coord EXCEPT ![c].pc = "cleaned", ![c].at = now,
                              ![c].snapshotInterval = NoTimer]
    /\ UNCHANGED <<clientVars, storeVars, signals>>

\* The cleanup function setupAutoSave() returned (424-427):
\* clearInterval(snapshotInterval) and clearInterval(flushInterval).
cleanup(c) ==
    /\ NoMicrotask
    /\ coord[c].op = "setupAutoSave" /\ coord[c].pc = "armed"
    /\ coord' = [coord EXCEPT ![c].pc = "cleaned", ![c].at = now,
                              ![c].snapshotInterval = NoTimer,
                              ![c].flushInterval = NoTimer]
    /\ UNCHANGED <<clientVars, storeVars, signals>>

\* The snapshot timer's callback (406-410): saveDocument() when the store is
\* initialized and Date.now() - lastSnapshotTime() > SNAPSHOT_INTERVAL.
snapshotTimer(c) ==
    /\ NoMicrotask
    /\ coord[c].op = "setupAutoSave"
    /\ coord[c].snapshotInterval # NoTimer /\ coord[c].snapshotInterval = now
    /\ LET rearmed == [coord EXCEPT ![c].snapshotInterval = @ + SNAPSHOT_INTERVAL] IN
       IF isInitialized /\ now - lastSnapshotTime > SNAPSHOT_INTERVAL
       THEN saveDocumentOn(rearmed)
       ELSE /\ coord' = rearmed
            /\ UNCHANGED <<clientVars, storeVars, signals>>

\* The flush timer's callback (413-421) up to its first await: with pending
\* updates and OPFS available, opfsStorage.appendUpdates(currentDocId(), update)
\* for the first update.
flushTimer(c) ==
    /\ NoMicrotask
    /\ coord[c].op = "setupAutoSave"
    /\ coord[c].flushInterval # NoTimer /\ coord[c].flushInterval = now
    /\ LET rearmed == [coord EXCEPT ![c].flushInterval = @ + FLUSH_INTERVAL] IN
       IF Len(pendingUpdates) > 0 /\ OpfsAvailable
       THEN /\ AppendUpdatesBegin(currentDocId, Head(pendingUpdates))
            /\ coord' = Append(rearmed, [NewCoordCall("flushTimer", "append", 0, TRUE)
                                            EXCEPT !.rest = Tail(pendingUpdates)])
       ELSE /\ coord' = rearmed
            /\ UNCHANGED storeVars
    /\ UNCHANGED <<clientVars, signals>>

\* The flush callback's appendUpdates has settled: the loop goes on to the
\* next update, or after the last one setPendingUpdates([]); a rejection
\* ends the callback, which has no catch.
flushTimerAppended(c) ==
    /\ coord[c].op = "flushTimer" /\ coord[c].pc = "append"
    /\ Resume("timer")
    /\ IF scall["timer"].status = "failed"
       THEN /\ coord' = [coord EXCEPT ![c].pc = "threw"]
            /\ UNCHANGED pendingUpdates
       ELSE IF coord[c].rest # <<>>
            THEN /\ coord' = [coord EXCEPT ![c].pc = "next"]
                 /\ UNCHANGED pendingUpdates
            ELSE /\ coord' = [coord EXCEPT ![c].pc = "done"]
                 /\ pendingUpdates' = <<>>
    /\ UNCHANGED <<clientVars, isInitialized, isLoading, error, documentView,
                   currentDocId, engineHealth, lastSnapshotTime>>

\* The flush callback's loop: appendUpdates(currentDocId(), update) for the
\* next update.
flushTimerNext(c) ==
    /\ coord[c].op = "flushTimer" /\ coord[c].pc = "next"
    /\ AppendUpdatesBegin(currentDocId, Head(coord[c].rest))
    /\ coord' = [coord EXCEPT ![c].pc = "append", ![c].rest = Tail(@)]
    /\ UNCHANGED <<clientVars, signals>>

\* A unit of time passes.  Before setupAutoSave() the clock goes as far as
\* the readings taken of it; a timer that is due fires first.
Tick ==
    /\ now < MaxTime
    /\ now < MaxClock \/ AutoSave # {}
    /\ \A c \in AutoSave : now \notin {coord[c].snapshotInterval, coord[c].flushInterval}
    /\ now' = now + 1
    /\ UNCHANGED <<clientVars, coordVars, root, initialized, dirs, snapshots, updates,
                   scall, ncalls, nextRid, saved>>

InitCoord ==
    /\ isInitialized = FALSE
    /\ isLoading = TRUE
    /\ error = <<>>
    /\ documentView = EmptyView
    /\ currentDocId = DefaultDocId
    /\ engineHealth = <<>>
    /\ lastSnapshotTime = 0
    /\ pendingUpdates = <<>>
    /\ coord = <<>>

\* The application: initStore() is called once, when the root component
\* mounts (index.tsx:15-18).  The event loop takes its next task (a worker
\* response, the completion of a storage step) only when no microtask is left.
\* Edits are made once the store is initialized; SpecEarly has the calls made
\* before.
NextCoord ==
    \/ NumCalls({"initStore"}) = 0 /\ initStore /\ UNCHANGED editorVars
    \/ \E c \in DOMAIN coord : initStoreEngine(c) /\ UNCHANGED editorVars
    \/ \E c \in DOMAIN coord : initStoreHealth(c) /\ UNCHANGED editorVars
    \/ \E c \in DOMAIN coord : initStoreLoaded(c) /\ UNCHANGED editorVars
    \/ \E c \in DOMAIN coord : initStoreView(c) /\ UNCHANGED editorVars
    \/ \E c \in DOMAIN coord : initStoreCatch(c) /\ UNCHANGED editorVars
    \/ isInitialized /\ NumCalls(CallOps) < MaxCalls /\ applyEdit /\ UNCHANGED editorVars
    \/ \E c \in DOMAIN coord : applyEditGetView(c) /\ UNCHANGED editorVars
    \/ isInitialized /\ NumCalls(CallOps) < MaxCalls /\ setDocumentText /\ UNCHANGED editorVars
    \/ \E c \in DOMAIN coord : setDocumentView(c) /\ UNCHANGED editorVars
    \/ \E c \in DOMAIN coord : editCatch(c) /\ UNCHANGED editorVars
    \/ NumCalls(CallOps) < MaxCalls /\ saveDocument /\ UNCHANGED editorVars
    \/ \E docId \in LoadIds : NumCalls(CallOps) < MaxCalls /\ loadDocument(docId) /\ UNCHANGED editorVars
    \/ \E c \in DOMAIN coord : saveDocumentExported(c) /\ UNCHANGED editorVars
    \/ \E c \in DOMAIN coord : saveDocumentEnds(c) /\ UNCHANGED editorVars
    \/ \E c \in DOMAIN coord : loadDocumentSwitch(c) /\ UNCHANGED editorVars
    \/ \E c \in DOMAIN coord : loadDocumentLoad(c) /\ UNCHANGED editorVars
    \/ \E c \in DOMAIN coord : loadDocumentLoaded(c) /\ UNCHANGED editorVars
    \/ \E c \in DOMAIN coord : loadDocumentGetView(c) /\ UNCHANGED editorVars
    \/ \E c \in DOMAIN coord : loadDocumentView(c) /\ UNCHANGED editorVars
    \/ \E c \in DOMAIN coord : loadDocumentCatch(c) /\ UNCHANGED editorVars
    \/ NoMicrotask /\ HandleMessage /\ UNCHANGED <<storeVars, coordVars, editorVars>>
    \/ WorkerThrows /\ UNCHANGED <<storeVars, coordVars, editorVars>>
    \/ WorkerServes /\ UNCHANGED <<storeVars, coordVars, editorVars>>
    \/ \E t \in CoordSlots :
          NoMicrotask /\ StoreInitRoot(t) /\ UNCHANGED <<clientVars, coordVars, editorVars>>
    \/ \E t \in CoordSlots :
          NoMicrotask /\ StoreInitDir(t) /\ UNCHANGED <<clientVars, coordVars, editorVars>>
    \/ \E t \in CoordSlots :
          NoMicrotask /\ StoreInitFails(t) /\ UNCHANGED <<clientVars, coordVars, editorVars>>
    \/ \E t \in CoordSlots :
          NoMicrotask /\ LoadDocumentRead(t) /\ UNCHANGED <<clientVars, coordVars, editorVars>>
    \/ \E t \in CoordSlots :
          NoMicrotask /\ SaveSnapshotWrite(t) /\ UNCHANGED <<clientVars, coordVars, editorVars>>
    \/ \E t \in CoordSlots :
          NoMicrotask /\ SaveSnapshotClose(t) /\ UNCHANGED <<clientVars, coordVars, editorVars>>
    \/ \E t \in CoordSlots :
          NoMicrotask /\ ClearUpdatesDone(t) /\ UNCHANGED <<clientVars, coordVars, editorVars>>
    \/ \E t \in CoordSlots :
          NoMicrotask /\ StorageError(t) /\ UNCHANGED <<clientVars, coordVars, editorVars>>

\* Every call has returned.
Quiet == \A c \in DOMAIN coord : coord[c].pc = "done"

\* The application, with the document calls made one after the other (a
\* call is made when the call before it has returned) and an engine that
\* answers every request, so that no catch block of the coordinator runs.
NextTrip ==
    \/ NumCalls({"initStore"}) = 0 /\ initStore /\ UNCHANGED editorVars
    \/ \E c \in DOMAIN coord : initStoreEngine(c) /\ UNCHANGED editorVars
    \/ \E c \in DOMAIN coord : initStoreHealth(c) /\ UNCHANGED editorVars
    \/ \E c \in DOMAIN coord : initStoreLoaded(c) /\ UNCHANGED editorVars
    \/ \E c \in DOMAIN coord : initStoreView(c) /\ UNCHANGED editorVars
    \/ Quiet /\ NumCalls(CallOps) < MaxTrip /\ saveDocument /\ UNCHANGED editorVars
    \/ \E docId \in LoadIds :
          Quiet /\ NumCalls(CallOps) < MaxTrip /\ loadDocument(docId) /\ UNCHANGED editorVars
    \/ \E c \in DOMAIN coord : saveDocumentExported(c) /\ UNCHANGED editorVars
    \/ \E c \in DOMAIN coord : saveDocumentEnds(c) /\ UNCHANGED editorVars
    \/ \E c \in DOMAIN coord : loadDocumentSwitch(c) /\ UNCHANGED editorVars
    \/ \E c \in DOMAIN coord : loadDocumentLoad(c) /\ UNCHANGED editorVars
    \/ \E c \in DOMAIN coord : loadDocumentLoaded(c) /\ UNCHANGED editorVars
    \/ \E c \in DOMAIN coord : loadDocumentGetView(c) /\ UNCHANGED editorVars
    \/ \E c \in DOMAIN coord : loadDocumentView(c) /\ UNCHANGED editorVars
    \/ NoMicrotask /\ HandleMessage /\ UNCHANGED <<storeVars, coordVars, editorVars>>
    \/ WorkerServes /\ UNCHANGED <<storeVars, coordVars, editorVars>>
    \/ \E t \in CoordSlots :
          NoMicrotask /\ StoreInitRoot(t) /\ UNCHANGED <<clientVars, coordVars, editorVars>>
    \/ \E t \in CoordSlots :
          NoMicrotask /\ StoreInitDir(t) /\ UNCHANGED <<clientVars, coordVars, editorVars>>
    \/ \E t \in CoordSlots :
          NoMicrotask /\ StoreInitFails(t) /\ UNCHANGED <<clientVars, coordVars, editorVars>>
    \/ \E t \in CoordSlots :
          NoMicrotask /\ LoadDocumentRead(t) /\ UNCHANGED <<clientVars, coordVars, editorVars>>
    \/ \E t \in CoordSlots :
          NoMicrotask /\ SaveSnapshotWrite(t) /\ UNCHANGED <<clientVars, coordVars, editorVars>>
    \/ \E t \in CoordSlots :
          NoMicrotask /\ SaveSnapshotClose(t) /\ UNCHANGED <<clientVars, coordVars, editorVars>>
    \/ \E t \in CoordSlots :
          NoMicrotask /\ ClearUpdatesDone(t) /\ UNCHANGED <<clientVars, coordVars, editorVars>>
    \/ \E t \in CoordSlots :
          NoMicrotask /\ StorageError(t) /\ UNCHANGED <<clientVars, coordVars, editorVars>>

\* The application with auto-save: initStore() and then setupAutoSave() as
\* the root component calls them, edits, the two timers and the cleanup,
\* with an engine and a storage that do not fail.  The flush callback's
\* steps after its first appendUpdates are not listed: no behaviour reaches
\* them, pendingUpdates being empty in every state.
NextAuto ==
    \/ NumCalls({"initStore"}) = 0 /\ initStore /\ UNCHANGED editorVars
    \/ \E c \in DOMAIN coord : initStoreEngine(c) /\ UNCHANGED editorVars
    \/ \E c \in DOMAIN coord : initStoreHealth(c) /\ UNCHANGED editorVars
    \/ \E c \in DOMAIN coord : initStoreLoaded(c) /\ UNCHANGED editorVars
    \/ \E c \in DOMAIN coord : initStoreView(c) /\ UNCHANGED editorVars
    \/ setupAutoSave /\ UNCHANGED editorVars
    \/ \E c \in DOMAIN coord : cleanup(c) /\ UNCHANGED editorVars
    \/ \E c \in DOMAIN coord : snapshotTimer(c) /\ UNCHANGED editorVars
    \/ \E c \in DOMAIN coord : flushTimer(c) /\ UNCHANGED editorVars
    \/ Tick /\ UNCHANGED editorVars
    \/ isInitialized /\ NumCalls({"applyEdit"}) < MaxEdits /\ applyEdit /\ UNCHANGED editorVars
    \/ \E c \in DOMAIN coord : applyEditGetView(c) /\ UNCHANGED editorVars
    \/ \E c \in DOMAIN coord : setDocumentView(c) /\ UNCHANGED editorVars
    \/ \E c \in DOMAIN coord : saveDocumentExported(c) /\ UNCHANGED editorVars
    \/ \E c \in DOMAIN coord : saveDocumentEnds(c) /\ UNCHANGED editorVars
    \/ NoMicrotask /\ HandleMessage /\ UNCHANGED <<storeVars, coordVars, editorVars>>
    \/ WorkerServes /\ UNCHANGED <<storeVars, coordVars, editorVars>>
    \/ \E t \in CoordSlots :
          NoMicrotask /\ StoreInitRoot(t) /\ UNCHANGED <<clientVars, coordVars, editorVars>>
    \/ \E t \in CoordSlots :
          NoMicrotask /\ StoreInitDir(t) /\ UNCHANGED <<clientVars, coordVars, editorVars>>
    \/ \E t \in CoordSlots :
          NoMicrotask /\ LoadDocumentRead(t) /\ UNCHANGED <<clientVars, coordVars, editorVars>>
    \/ \E t \in CoordSlots :
          NoMicrotask /\ SaveSnapshotWrite(t) /\ UNCHANGED <<clientVars, coordVars, editorVars>>
    \/ \E t \in CoordSlots :
          NoMicrotask /\ SaveSnapshotClose(t) /\ UNCHANGED <<clientVars, coordVars, editorVars>>
    \/ \E t \in CoordSlots :
          NoMicrotask /\ ClearUpdatesDone(t) /\ UNCHANGED <<clientVars, coordVars, editorVars>>

\* The application with auto-save, the document being switched while the
\* timers run: initStore() and setupAutoSave() as the root component calls
\* them, the timers, loadDocument calls, an engine that answers every request
\* and a store whose steps succeed.
NextSwitch ==
    \/ NumCalls({"initStore"}) = 0 /\ initStore /\ UNCHANGED editorVars
    \/ \E c \in DOMAIN coord : initStoreEngine(c) /\ UNCHANGED editorVars
    \/ \E c \in DOMAIN coord : initStoreHealth(c) /\ UNCHANGED editorVars
    \/ \E c \in DOMAIN coord : initStoreLoaded(c) /\ UNCHANGED editorVars
    \/ \E c \in DOMAIN coord : initStoreView(c) /\ UNCHANGED editorVars
    \/ setupAutoSave /\ UNCHANGED editorVars
    \/ \E c \in DOMAIN coord : snapshotTimer(c) /\ UNCHANGED editorVars
    \/ \E c \in DOMAIN coord : flushTimer(c) /\ UNCHANGED editorVars
    \/ Tick /\ UNCHANGED editorVars
    \/ \E docId \in LoadIds :
          isInitialized /\ NumCalls({"loadDocument"}) < MaxLoads /\ loadDocument(docId) /\ UNCHANGED editorVars
    \/ \E c \in DOMAIN coord : saveDocumentExported(c) /\ UNCHANGED editorVars
    \/ \E c \in DOMAIN coord : saveDocumentEnds(c) /\ UNCHANGED editorVars
    \/ \E c \in DOMAIN coord : loadDocumentSwitch(c) /\ UNCHANGED editorVars
    \/ \E c \in DOMAIN coord : loadDocumentLoad(c) /\ UNCHANGED editorVars
    \/ \E c \in DOMAIN coord : loadDocumentLoaded(c) /\ UNCHANGED editorVars
    \/ \E c \in DOMAIN coord : loadDocumentGetView(c) /\ UNCHANGED editorVars
    \/ \E c \in DOMAIN coord : loadDocumentView(c) /\ UNCHANGED editorVars
    \/ NoMicrotask /\ HandleMessage /\ UNCHANGED <<storeVars, coordVars, editorVars>>
    \/ WorkerServes /\ UNCHANGED <<storeVars, coordVars, editorVars>>
    \/ \E t \in CoordSlots :
          NoMicrotask /\ StoreInitRoot(t) /\ UNCHANGED <<clientVars, coordVars, editorVars>>
    \/ \E t \in CoordSlots :
          NoMicrotask /\ StoreInitDir(t) /\ UNCHANGED <<clientVars, coordVars, editorVars>>
    \/ \E t \in CoordSlots :
          NoMicrotask /\ LoadDocumentRead(t) /\ UNCHANGED <<clientVars, coordVars, editorVars>>
    \/ \E t \in CoordSlots :
          NoMicrotask /\ SaveSnapshotWrite(t) /\ UNCHANGED <<clientVars, coordVars, editorVars>>
    \/ \E t \in CoordSlots :
          NoMicrotask /\ SaveSnapshotClose(t) /\ UNCHANGED <<clientVars, coordVars, editorVars>>
    \/ \E t \in CoordSlots :
          NoMicrotask /\ ClearUpdatesDone(t) /\ UNCHANGED <<clientVars, coordVars, editorVars>>

\* The application while the store is not initialized: initStore() once,
\* and the four document calls made before it has succeeded (also before it
\* is called, and after it has failed).
NextEarly ==
    \/ NumCalls({"initStore"}) = 0 /\ initStore /\ UNCHANGED editorVars
    \/ \E c \in DOMAIN coord : initStoreEngine(c) /\ UNCHANGED editorVars
    \/ \E c \in DOMAIN coord : initStoreHealth(c) /\ UNCHANGED editorVars
    \/ \E c \in DOMAIN coord : initStoreLoaded(c) /\ UNCHANGED editorVars
    \/ \E c \in DOMAIN coord : initStoreView(c) /\ UNCHANGED editorVars
    \/ \E c \in DOMAIN coord : initStoreCatch(c) /\ UNCHANGED editorVars
    \/ ~isInitialized /\ NumCalls(CallOps) < MaxCalls /\ applyEdit /\ UNCHANGED editorVars
    \/ ~isInitialized /\ NumCalls(CallOps) < MaxCalls /\ setDocumentText /\ UNCHANGED editorVars
    \/ ~isInitialized /\ NumCalls(CallOps) < MaxCalls /\ saveDocument /\ UNCHANGED editorVars
    \/ \E docId \in LoadIds :
          ~isInitialized /\ NumCalls(CallOps) < MaxCalls /\ loadDocument(docId) /\ UNCHANGED editorVars
    \/ NoMicrotask /\ HandleMessage /\ UNCHANGED <<storeVars, coordVars, editorVars>>
    \/ WorkerThrows /\ UNCHANGED <<storeVars, coordVars, editorVars>>
    \/ WorkerServes /\ UNCHANGED <<storeVars, coordVars, editorVars>>
    \/ \E t \in CoordSlots :
          NoMicrotask /\ StoreInitRoot(t) /\ UNCHANGED <<clientVars, coordVars, editorVars>>
    \/ \E t \in CoordSlots :
          NoMicrotask /\ StoreInitDir(t) /\ UNCHANGED <<clientVars, coordVars, editorVars>>
    \/ \E t \in CoordSlots :
          NoMicrotask /\ StoreInitFails(t) /\ UNCHANGED <<clientVars, coordVars, editorVars>>
    \/ \E t \in CoordSlots :
          NoMicrotask /\ LoadDocumentRead(t) /\ UNCHANGED <<clientVars, coordVars, editorVars>>

\* initStore() called any number of times, also while an earlier call is
\* suspended: a caller that does not know whether the store is initialized.
NextReinit ==
    \/ initStore /\ UNCHANGED editorVars
    \/ \E c \in DOMAIN coord : initStoreEngine(c) /\ UNCHANGED editorVars
    \/ \E c \in DOMAIN coord : initStoreHealth(c) /\ UNCHANGED editorVars
    \/ \E c \in DOMAIN coord : initStoreLoaded(c) /\ UNCHANGED editorVars
    \/ \E c \in DOMAIN coord : initStoreView(c) /\ UNCHANGED editorVars
    \/ \E c \in DOMAIN coord : initStoreCatch(c) /\ UNCHANGED editorVars
    \/ NoMicrotask /\ HandleMessage /\ UNCHANGED <<storeVars, coordVars, editorVars>>
    \/ \E k \in DOMAIN orphans :
          NoMicrotask /\ OrphanMessage(k) /\ UNCHANGED <<storeVars, coordVars, editorVars>>
    \/ WorkerThrows /\ UNCHANGED <<storeVars, coordVars, editorVars>>
    \/ WorkerServes /\ UNCHANGED <<storeVars, coordVars, editorVars>>
    \/ \E k \in DOMAIN orphans : OrphanWorker(k) /\ UNCHANGED <<storeVars, coordVars, editorVars>>
    \/ \E t \in CoordSlots :
          NoMicrotask /\ StoreInitRoot(t) /\ UNCHANGED <<clientVars, coordVars, editorVars>>
    \/ \E t \in CoordSlots :
          NoMicrotask /\ StoreInitDir(t) /\ UNCHANGED <<clientVars, coordVars, editorVars>>
    \/ \E t \in CoordSlots :
          NoMicrotask /\ StoreInitFails(t) /\ UNCHANGED <<clientVars, coordVars, editorVars>>
    \/ \E t \in CoordSlots :
          NoMicrotask /\ LoadDocumentRead(t) /\ UNCHANGED <<clientVars, coordVars, editorVars>>

(***************************************************************************)
(* Document Coordinator: the claims (checked under SpecCoord).             *)
(***************************************************************************)
\* C3: an applyEdit or setDocumentText call whose request the engine
\* rejected (the edit itself, or the view fetch that follows it) publishes no
\* view.
C3_FailedCallPublishesNothing ==
    \A c \in DOMAIN coord :
        (/\ coord[c].op \in {"applyEdit", "setDocumentText"}
         /\ (coord[c].mut \in thrown \/ coord[c].req \in thrown))
            => ~coord[c].published

\* The call's kernEngine.init() promise has rejected and its catch block runs.
InitFails(c) ==
    /\ coord[c].op = "initStore" /\ coord[c].pc = "engine"
    /\ reqs[coord[c].req].status = "rejected"
    /\ coord'[c].pc = "done"

\* C14: when initStore ends because the Engine Client's initialization
\* failed, the readiness flag is false, the error observable is the failure
\* message, the loading flag is false, and the call has published no view.
C14_EngineInitFailure ==
    [][\A c \in DOMAIN coord :
          InitFails(c) => /\ ~isInitialized'
                          /\ error' = <<reqs[coord[c].req].value>>
                          /\ ~isLoading'
                          /\ ~coord'[c].published
                          /\ documentView' = documentView]_vars

\* C15: an initStore call that has ended without any engine failure, with
\* the Durable Store absent or its init() having returned false, has
\* published the view, is ready, and no error is set.
C15_StorageFailureTolerated ==
    \A c \in DOMAIN coord :
        (/\ coord[c].op = "initStore" /\ coord[c].pc = "done"
         /\ (~coord[c].opfsAvailable \/ ~coord[c].initOk)
         /\ thrown = {})
            => /\ coord[c].published
               /\ isInitialized
               /\ error = <<>>

\* C16: at most one computation context is alive: no init() has replaced a
\* worker that was not terminated.
C16_OneLiveContext == orphans = <<>>

\* The call takes the outcome of a promise that has failed.
TakesFailure(c) ==
    /\ coord[c].op \in CallOps
    /\ \/ EngineSettled(c, "rejected")
       \/ StoreSettled(c) /\ scall[Slot(c)].status = "failed"
    /\ coord'[c] # coord[c]

LoadFails(c) ==
    /\ coord[c].op = "loadDocument"
    /\ coord[c].pc \in {"load", "bytes", "seed", "view"}
    /\ coord'[c].pc = "done" /\ coord'[c].caught

\* C18: when loadDocument(newId) fails, the current document id is the one
\* from before the call and the published view is not changed.
C18_FailedLoadLeavesState ==
    [][\A c \in DOMAIN coord :
          LoadFails(c) => /\ currentDocId' = coord[c].prevId
                          /\ documentView' = documentView]_vars

\* The step on which the saveDocument() body of call c ends.
SaveBodyEnds(c) ==
    /\ coord[c].op \in DocOps
    /\ coord[c].pc \in {"export", "save"}
    /\ coord'[c].pc \in {"done", "switched"}

\* C19: a saveDocument() made when the store is not ready or OPFS is not
\* available issues no engine and no storage request.  When its body ends in
\* success, the stored snapshot of the document id it saved (the current id
\* when it called saveSnapshot) is the bytes its exportSnapshot resolved
\* with, the last-snapshot time is the time of completion and the buffer is
\* empty; when it ends in failure, the last-snapshot time and the buffer are
\* unchanged.
C19_SaveDocumentContract ==
    [][/\ (/\ Len(coord') = Len(coord) + 1
           /\ coord'[Len(coord')].op = "saveDocument"
           /\ (~isInitialized \/ ~OpfsAvailable))
              => /\ reqs' = reqs /\ inbox' = inbox /\ pendingMessages' = pendingMessages
                 /\ scall' = scall
                 /\ coord'[Len(coord')].pc = "done"
       /\ \A c \in DOMAIN coord :
             SaveBodyEnds(c) =>
                IF coord'[c].save = "ok"
                THEN /\ Stored(snapshots', coord[c].savedId) = reqs[coord[c].mut].value
                     /\ scall[Slot(c)].status = "ok"
                     /\ lastSnapshotTime' = now'
                     /\ pendingUpdates' = <<>>
                ELSE /\ lastSnapshotTime' = lastSnapshotTime
                     /\ pendingUpdates' = pendingUpdates]_vars

\* C20: in loadDocument(newId), the snapshot of the outgoing document is
\* written under the outgoing id (the current id when the call was made); the
\* id is switched to newId when the save has ended, also when it has failed;
\* the storage read of newId is made after the switch.
C20_LoadOrdering ==
    [][\A c \in DOMAIN coord :
          coord[c].op = "loadDocument" =>
             /\ (coord[c].pc = "export" /\ coord'[c].pc = "save")
                   => /\ scall'[Slot(c)].op = "saveSnapshot"
                      /\ scall'[Slot(c)].id = coord[c].prevId
                      /\ currentDocId' = coord[c].prevId
             /\ SaveBodyEnds(c)
                   => /\ coord'[c].pc = "switched"
                      /\ currentDocId' = coord[c].docId
             /\ (coord[c].pc # "load" /\ coord'[c].pc = "load")
                   => /\ coord[c].pc = "switched"
                      /\ scall'[Slot(c)].op = "loadDocument"
                      /\ scall'[Slot(c)].id = coord[c].docId
                      /\ currentDocId' = currentDocId]_vars

\* C21: when loadDocument(newId) publishes its view and no snapshot exists
\* for newId, the view shows the placeholder body of newId (with the edits
\* made on top of it, if any) and not the content of the previously open
\* document, whether or not durable storage is available.  Calls of
\* setDocumentText that replace the body while the load is in progress are
\* set aside.
C21_NewDocumentPlaceholder ==
    [][\A c \in DOMAIN coord :
          (/\ coord[c].op = "loadDocument"
           /\ coord[c].pc = "view" /\ coord'[c].published
           /\ Stored(snapshots, coord[c].docId) = Absent
           /\ \A e \in DOMAIN coord :
                 coord[e].op = "setDocumentText" => coord[e].mut < coord[c].mut)
             => StartsWith(ViewOf(documentView').text, Placeholder(coord[c].docId))]_vars

\* Two views show the same lines: the same contents and the same line ids.
SameLines(v, w) == v.text = w.text /\ v.ids = w.ids

\* C23: loadDocument(id), then a saveDocument() that stores the snapshot,
\* then loadDocument(id) again, each made when the one before has returned:
\* the view the second loadDocument publishes has the line ids and line
\* contents of the view that was published when it was called.
C23_LoadRoundTrip ==
    [][\A c \in DOMAIN coord :
          (/\ c > 2
           /\ coord[c].op = "loadDocument"
           /\ coord[c].pc = "view" /\ coord'[c].published
           /\ coord[c - 1].op = "saveDocument" /\ coord[c - 1].save = "ok"
           /\ coord[c - 2].op = "loadDocument"
           /\ coord[c - 2].docId = coord[c].docId
           /\ coord[c - 2].published)
             => SameLines(ViewOf(documentView'), ViewOf(coord[c].prevView))]_vars

\* The round trip has been made on a document that was new: the first
\* loadDocument seeded the placeholder, the second read it back from the
\* snapshot and published it.
C23_Witness ==
    \E c \in DOMAIN coord :
        /\ c > 2
        /\ coord[c].op = "loadDocument" /\ coord[c].pc = "done" /\ coord[c].published
        /\ coord[c - 1].op = "saveDocument" /\ coord[c - 1].save = "ok"
        /\ coord[c - 2].op = "loadDocument" /\ coord[c - 2].published
        /\ coord[c - 2].docId = coord[c].docId
        /\ coord[c].docId # DefaultDocId
        /\ ViewOf(documentView).text = Placeholder(coord[c].docId)
        /\ reqs[coord[c].req - 1].kind = "load_from_bytes"

\* C24: the views the coordinator publishes never go back in version, and a
\* successful applyEdit or setDocumentText publishes a view whose version is
\* greater than that of the view published before it, under any interleaving
\* of edits, view fetches and saves (no loadDocument call, which replaces the
\* document).
C24_VersionMonotone ==
    [][(\A c \in DOMAIN coord : coord[c].op # "loadDocument")
          => /\ ViewOf(documentView').version >= ViewOf(documentView).version
             /\ \A c \in DOMAIN coord :
                   (/\ coord[c].op \in {"applyEdit", "setDocumentText"}
                    /\ ~coord[c].published /\ coord'[c].published)
                      => ViewOf(documentView').version > ViewOf(documentView).version]_vars

\* The call is suspended at an await: it has neither returned nor failed.
InProgress(c) == coord[c].pc \notin {"done", "threw"}

\* C22: the loading flag is true whenever some loadDocument call is in
\* progress, also when several overlap, and false once initStore has been
\* called and no initStore or loadDocument call is in progress.
C22_LoadingFlag ==
    /\ (\E c \in DOMAIN coord : coord[c].op = "loadDocument" /\ InProgress(c))
          => isLoading
    /\ (/\ \E c \in DOMAIN coord : coord[c].op = "initStore"
        /\ \A c \in DOMAIN coord :
              coord[c].op \in {"initStore", "loadDocument"} => ~InProgress(c))
          => ~isLoading

\* C25: every successful applyEdit buffers its change in pendingUpdates; and
\* with auto-save running and OPFS available, a firing of the flush timer
\* after a successful edit, while no delta record of the current document is
\* stored, starts opfsStorage.appendUpdates.
C25_EditDurability ==
    [][/\ \A c \in DOMAIN coord :
            (coord[c].op = "applyEdit" /\ ~coord[c].published /\ coord'[c].published)
               => Len(pendingUpdates') > Len(pendingUpdates)
       /\ \A c \in AutoSave :
            (/\ coord[c].flushInterval # NoTimer
             /\ coord'[c].flushInterval = coord[c].flushInterval + FLUSH_INTERVAL
             /\ OpfsAvailable
             /\ \E e \in DOMAIN coord : coord[e].op = "applyEdit" /\ coord[e].published
             /\ \A n \in DOMAIN updates : updates[n].owner # currentDocId)
               => scall'["timer"].op = "appendUpdates"]_vars

\* The saveDocument() calls that wrote a snapshot.
SnapshotWrites == {c \in DOMAIN coord : coord[c].op = "saveDocument" /\ coord[c].save = "ok"}

\* C26: the store is initialized with OPFS available, the last snapshot is of
\* time 0 and the snapshot timer was started at time 0 (after its firing at
\* SNAPSHOT_INTERVAL it is due next at twice that); then at time
\* SNAPSHOT_INTERVAL + 1, no saveDocument() being in progress, exactly one
\* snapshot has been written and pendingUpdates is empty.
C26_SnapshotCadence ==
    (/\ now = SNAPSHOT_INTERVAL + 1
     /\ isInitialized /\ OpfsAvailable
     /\ \E c \in AutoSave : coord[c].snapshotInterval = 2 * SNAPSHOT_INTERVAL
     /\ \A c \in DOMAIN coord : coord[c].op = "saveDocument" => coord[c].pc = "done")
       => Cardinality(SnapshotWrites) = 1 /\ pendingUpdates = <<>>

\* The cleanup function of setupAutoSave() has been called.
Cleaned == \E c \in AutoSave : coord[c].pc = "cleaned"

\* C27: once the cleanup function has been called neither timer fires
\* again: no saveDocument() and no flush callback is started, and no
\* appendUpdates of the timer.
C27_CleanupCancels ==
    [][Cleaned =>
         /\ \A c \in AutoSave :
               /\ coord'[c].snapshotInterval = coord[c].snapshotInterval
               /\ coord'[c].flushInterval = coord[c].flushInterval
         /\ \A c \in DOMAIN coord' \ DOMAIN coord :
               coord'[c].op \notin {"saveDocument", "flushTimer"}
         /\ scall["timer"] = Idle => scall'["timer"] = Idle]_vars

\* The cleanup ran while the snapshot timer's saveDocument() was in flight:
\* the save has finished after it, and a flush interval has passed since.
C27_Witness ==
    \E c \in AutoSave :
       /\ coord[c].pc = "cleaned"
       /\ now >= coord[c].at + FLUSH_INTERVAL
       /\ \E d \in SnapshotWrites : coord[d].pc = "done" /\ lastSnapshotTime > coord[c].at

\* C33: the Coordinator never has two engine requests outstanding that
\* await the same response type, whatever the order of the calls made by the
\* interactive surface.
C33_SameKindDiscipline ==
    \A r1, r2 \in Outstanding :
       ResponseOf(reqs[r1].kind) = ResponseOf(reqs[r2].kind) => r1 = r2

\* C34: when an applyEdit or setDocumentText call publishes, the view it
\* publishes was carried by a 'view' response the engine computed after it
\* served the call's mutation; and when every call has returned, the
\* published view is the document the engine holds.
C34_ViewIsProjection ==
    /\ [][\A c \in DOMAIN coord :
             (/\ coord[c].op \in {"applyEdit", "setDocumentText"}
              /\ ~coord[c].published /\ coord'[c].published)
                => /\ documentView' \in DOMAIN results
                   /\ results[documentView'].type = "view"
                   /\ documentView' >= coord[c].mut]_vars
    /\ []((/\ Quiet /\ isInitialized
           /\ \E c \in DOMAIN coord : coord[c].op \in {"applyEdit", "setDocumentText"})
             => ViewOf(documentView) = doc)

\* The loadDocument calls whose load request the engine served before the
\* request r.
LoadedBefore(r) ==
    {c \in DOMAIN coord : /\ coord[c].op = "loadDocument"
                          /\ coord[c].load # 0 /\ coord[c].load < r
                          /\ coord[c].load \notin thrown}

\* The document the engine held when it served the request r: the one the
\* last loadDocument before it put there, and before any the default one.
DocumentAt(r) ==
    IF LoadedBefore(r) = {} THEN DefaultDocId
    ELSE coord[CHOOSE c \in LoadedBefore(r) :
                  \A d \in LoadedBefore(r) : coord[d].load <= coord[c].load].docId

\* C38: the bytes stored as the snapshot of a document id were exported
\* while the engine held that document, also when a saveDocument() of the
\* snapshot timer and a loadDocument of another id overlap.
C38_NoCrossContamination ==
    \A id \in DocIds \cup LoadIds :
       IsSnapshot(results, Stored(snapshots, id))
          => DocumentAt(Stored(snapshots, id)) = id

\* C39: when two loadDocument calls have overlapped (the second was made
\* before the first sent its last request) and both have published their
\* view and returned, the current document id, the document the engine holds
\* and the document of the published view are the same.
C39_OverlappingSwitches ==
    \A c1, c2 \in DOMAIN coord :
       (/\ c1 < c2
        /\ coord[c1].op = "loadDocument" /\ coord[c2].op = "loadDocument"
        /\ coord[c1].pc = "done" /\ coord[c1].published
        /\ coord[c2].pc = "done" /\ coord[c2].published
        /\ coord[c2].mut < coord[c1].req
        /\ Quiet)
          => /\ DocumentAt(Len(reqs) + 1) = currentDocId
             /\ DocumentAt(documentView) = currentDocId

\* C35: a call of applyEdit, setDocumentText, saveDocument or loadDocument
\* made while the store is not initialized returns at once: it sends no
\* engine request, begins no storage operation and leaves the view, the
\* current id and the loading flag as they were.
C35_ReadinessGuard ==
    [][(/\ ~isInitialized
        /\ Len(coord') = Len(coord) + 1
        /\ coord'[Len(coord')].op \in CallOps)
          => /\ coord'[Len(coord')].pc = "done"
             /\ reqs' = reqs /\ pendingMessages' = pendingMessages
             /\ inbox' = inbox /\ posted' = posted /\ handlers' = handlers
             /\ scall' = scall /\ snapshots' = snapshots /\ updates' = updates
             /\ documentView' = documentView
             /\ currentDocId' = currentDocId
             /\ isLoading' = isLoading]_vars

\* While initStore() is in progress, with the loading flag set, an edit and
\* a loadDocument of another id have been called and have returned.
C35_Witness ==
    /\ ~isInitialized /\ isLoading
    /\ \E c \in DOMAIN coord : coord[c].op = "initStore" /\ coord[c].pc = "engine"
    /\ \E c \in DOMAIN coord : coord[c].op = "applyEdit" /\ coord[c].pc = "done"
    /\ \E c \in DOMAIN coord :
          /\ coord[c].op = "loadDocument" /\ coord[c].pc = "done"
          /\ coord[c].docId # currentDocId

(***************************************************************************)
(* The editor (KernEditor.tsx) in normal and insert mode, rendered with    *)
(* the document store replaced as in its tests (part_005:5-14):            *)
(* documentView() and isInitialized() return what the test has set, and    *)
(* applyEdit records the delta it is called with and returns at once, so a *)
(* key handler runs to its end before the next key is handled.             *)
(***************************************************************************)
\* The contents a line of the view has.
Contents == {"", "a", "hello"}

\* The views: up to MaxLines lines (a view without lines is the store's
\* initial one).
Views == UNION {[1..n -> Contents] : n \in 0..MaxLines}

\* The keys pressed.
Keys == {"h", "j", "k", "l", "o", "Escape"}

Max(a, b) == IF a > b THEN a ELSE b

Min(a, b) == IF a < b THEN a ELSE b

\* lines() (27-38): the lines of the view, or the placeholder while the view
\* has none.
lines ==
    IF Len(mockDocumentView) > 0 THEN mockDocumentView
    ELSE <<"# Welcome to Kern", "", "Loading...">>

\* lines()[line]?.content || ''
lineContent(line) == IF line + 1 \in DOMAIN lines THEN lines[line + 1] ELSE ""

\* The last column the cursor may take on a line of this content (45-48,
\* 82-85): in normal mode the last character, in insert mode one past it.
maxCol(content, m) ==
    IF m = "normal" THEN Max(0, Len(content) - 1) ELSE Len(content)

\* clampCursor(line, col) (41-51).
clampCursor(line, col) ==
    LET clampedLine == Max(0, Min(line, Len(lines) - 1)) IN
    <<clampedLine,
      Max(0, Min(col, maxCol(lineContent(clampedLine), mode)))>>

\* moveLeft and moveRight (54-62) set the column only.
moveLeft ==
    /\ cursorCol' = clampCursor(cursorLine, cursorCol - 1)[2]
    /\ UNCHANGED <<mockDocumentView, mockIsInitialized, mockApplyEdit, cursorLine, mode>>

moveRight ==
    /\ cursorCol' = clampCursor(cursorLine, cursorCol + 1)[2]
    /\ UNCHANGED <<mockDocumentView, mockIsInitialized, mockApplyEdit, cursorLine, mode>>

\* moveUp and moveDown (64-74).
moveUp ==
    /\ cursorLine' = clampCursor(cursorLine - 1, cursorCol)[1]
    /\ cursorCol' = clampCursor(cursorLine - 1, cursorCol)[2]
    /\ UNCHANGED <<mockDocumentView, mockIsInitialized, mockApplyEdit, mode>>

moveDown ==
    /\ cursorLine' = clampCursor(cursorLine + 1, cursorCol)[1]
    /\ cursorCol' = clampCursor(cursorLine + 1, cursorCol)[2]
    /\ UNCHANGED <<mockDocumentView, mockIsInitialized, mockApplyEdit, mode>>

\* moveToLineEnd() (80-86): the column it sets.
moveToLineEnd == maxCol(lineContent(cursorLine), mode)

\* insertNewline() (127-137) with the cursor in column col: nothing when the
\* store is not initialized, else applyEdit with a newline at the cursor,
\* and the cursor goes to the start of the next line.
insertNewline(col) ==
    IF ~mockIsInitialized
    THEN /\ cursorCol' = col
         /\ UNCHANGED <<mockApplyEdit, cursorLine>>
    ELSE /\ mockApplyEdit' = Append(mockApplyEdit,
                                [line |-> cursorLine, col |-> col, insert |-> "\n"])
         /\ cursorLine' = cursorLine + 1
         /\ cursorCol' = 0

\* handleKeyDown (209-364) for the keys pressed: in normal mode the four
\* movements and `o` (moveToLineEnd, insertNewline, insert mode); in insert
\* mode Escape, which goes back to normal mode and takes the cursor off the
\* position past the end of the line.
handleKeyDown(key) ==
    /\ IF mode = "normal"
       THEN CASE key = "h" -> moveLeft
              [] key = "j" -> moveDown
              [] key = "k" -> moveUp
              [] key = "l" -> moveRight
              [] key = "o" -> /\ insertNewline(moveToLineEnd)
                              /\ mode' = "insert"
                              /\ UNCHANGED <<mockDocumentView, mockIsInitialized>>
              [] OTHER -> UNCHANGED editorVars
       ELSE /\ key = "Escape"
            /\ mode' = "normal"
            /\ cursorCol' = IF cursorCol > 0 /\ cursorCol >= Len(lineContent(cursorLine))
                            THEN Max(0, Len(lineContent(cursorLine)) - 1)
                            ELSE cursorCol
            /\ UNCHANGED <<mockDocumentView, mockIsInitialized, mockApplyEdit, cursorLine>>
    /\ UNCHANGED <<clientVars, storeVars, coordVars>>

\* The test sets what documentView() returns (mockReturnValue, part_005:26-29):
\* the store publishes a view.
mockDocumentViewReturns(view) ==
    /\ mockDocumentView' = view
    /\ UNCHANGED <<mockIsInitialized, mockApplyEdit, cursorLine, cursorCol, mode>>
    /\ UNCHANGED <<clientVars, storeVars, coordVars>>

\* The test sets what isInitialized() returns (part_005:19).
mockIsInitializedReturns(b) ==
    /\ mockIsInitialized' = b
    /\ UNCHANGED <<mockDocumentView, mockApplyEdit, cursorLine, cursorCol, mode>>
    /\ UNCHANGED <<clientVars, storeVars, coordVars>>

\* The editor when it is rendered: normal mode (8), the cursor at the start
\* (14-15); no view set, the store initialized (part_005:17-21).
InitEditor ==
    /\ mockDocumentView = <<>>
    /\ mockIsInitialized = TRUE
    /\ mockApplyEdit = <<>>
    /\ cursorLine = 0
    /\ cursorCol = 0
    /\ mode = "normal"

\* The editor: keys are pressed while the view is being replaced.
NextEditor ==
    \/ \E key \in Keys :
          /\ key = "o" => Len(mockApplyEdit) < MaxKeys
          /\ handleKeyDown(key)
    \/ \E view \in Views : mockDocumentViewReturns(view)
    \/ \E b \in BOOLEAN : mockIsInitializedReturns(b)

\* C36: `o` pressed in normal mode, with the store initialized, calls
\* applyEdit once: with the cursor line, the length of that line as the
\* column (0 on an empty line) and a newline to insert; and the editor is in
\* insert mode afterwards, whatever the line's content and the column the
\* cursor was in.
C36_OpenLineBelow ==
    [][(mode = "normal" /\ mockIsInitialized /\ mode' # mode)
          => /\ mockApplyEdit' =
                   Append(mockApplyEdit, [line |-> cursorLine,
                                          col |-> Len(lineContent(cursorLine)),
                                          insert |-> "\n"])
             /\ mode' = "insert"]_vars

(***************************************************************************)
(* The specifications.                                                     *)
(***************************************************************************)
Init == InitClient /\ InitStore /\ InitCoord /\ InitEditor

SpecClient == Init /\ [][NextClient]_vars

SpecStore == Init /\ [][NextStore]_vars

SpecCoord == Init /\ [][NextCoord]_vars

SpecReinit == Init /\ [][NextReinit]_vars

SpecTrip == Init /\ [][NextTrip]_vars

SpecAuto == Init /\ [][NextAuto]_vars

SpecEarly == Init /\ [][NextEarly]_vars

SpecSwitch == Init /\ [][NextSwitch]_vars

SpecEditor == Init /\ [][NextEditor]_vars

=============================================================================
